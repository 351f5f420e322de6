------------------------------- MODULE Accounts -------------------------------
(***************************************************************************)
(* Accounts beyond their sessions: registration and the proof of an email  *)
(* address (src/modules/auth, src/modules/users), and what staff does with *)
(* them and with reports (src/modules/moderation).                         *)
(*                                                                         *)
(* A request loads the rows it needs, and at its flush the ORM writes the  *)
(* columns whose value it has changed over whatever the row holds then     *)
(* (Flush).  Requests of staff lock the account that they are about; the   *)
(* account's own requests lock nothing.                                    *)
(***************************************************************************)
EXTENDS Integers, FiniteSets

CONSTANTS Users,      \* accounts, registered or not
          Addresses,  \* email addresses; usernames are unique in the same way
          MaxTokens,  \* bound: verification tokens that are made
          MaxReports, \* bound: reports that are made
          Txs,        \* database sessions of the API
          None        \* NULL, and the address of an anonymised account

ASSUME NoneAssumption == None \notin Users \cup Addresses \cup 1..MaxReports
ASSUME BoundsAssumption == MaxTokens \in Nat \ {0} /\ MaxReports \in Nat

VARIABLES indexed,    \* reports are about a post or a comment, where the table has a
                      \* unique index for open ones, or else about a message
          author,     \* the account that wrote it; neither of these two changes
          hidden,     \* its deleted_at is set
          user,       \* user[u]: the row of the table users, or NoUser
          token,      \* token[k]: a row of email_verification_tokens, or NoToken
          report,     \* report[r]: a row of reports, or NoReport
          tx,         \* tx[t]: Idle, or the position of the request and what it loaded
          made,       \* how many requests were made by members and by staff
          acts,       \* history: the standing of each account as the committed acts
                      \* of staff make it, each applied to what those before it
                      \* left.  moderation_actions holds the same acts in order of
                      \* created_at, when their transactions began, which is another
          overlapped  \* history: accounts with two requests about the address at once

scene == <<indexed, author>>
content == <<scene, hidden>>
vars == <<content, user, token, report, tx, made, acts, overlapped>>

Roles == {"user", "moderator", "admin"}
Statuses == {"active", "banned", "deleted"}
Account == [status : Statuses, role : Roles, muted : BOOLEAN,
            address : Addresses \cup {None}, verified : BOOLEAN]
NoUser == [status |-> "none"]
Registered == {u \in Users : user[u] # NoUser}

\* address: where the token was sent.  "void" and "used" both mean that used_at
\* is set, the latter by verify_email.
Token == [user : Users, address : Addresses \cup {None}, status : {"live", "void", "used"}]
NoToken == [status |-> "none"]
Report == [reporter : Users, status : {"open", "resolved", "rejected"}]
NoReport == [status |-> "none"]

Tokens == 1..MaxTokens
Reports == 1..MaxReports
\* Ids are given out in order.
Unused(id, table) == id = Cardinality({j \in DOMAIN table : table[j].status # "none"}) + 1
Idle == [pc |-> "idle"]
Actions == {"ban", "unban", "mute", "unmute", "delete", "demote", "promote"}

NewAccount(role, address) ==
  [status |-> "active", role |-> role, muted |-> FALSE, address |-> address, verified |-> FALSE]
\* What acts of staff change of an account.
Standing(account) == [status |-> account.status, role |-> account.role, muted |-> account.muted]

\* Some accounts exist, with addresses of their own; the content is by one of
\* them, whose first link is still good.  Admins are made by
\* scripts/seed.py.
Init ==
  /\ indexed \in BOOLEAN
  /\ \E members \in SUBSET Users \ {{}} :
       \E role \in [members -> Roles], address \in [members -> Addresses] :
         /\ \A u, v \in members : u # v => address[u] # address[v]
         /\ author \in members
         /\ user = [u \in Users |->
              IF u \notin members THEN NoUser
              ELSE NewAccount(role[u], address[u])]
         /\ token = [k \in Tokens |->
              IF k = 1 THEN [user |-> author, address |-> address[author], status |-> "live"] ELSE NoToken]
         /\ acts = [u \in Users |-> Standing(NewAccount(IF u \in members THEN role[u] ELSE "user", None))]
  /\ hidden = FALSE
  /\ report = [r \in Reports |-> NoReport]
  /\ tx = [t \in Txs |-> Idle]
  /\ made = [members |-> 0, staff |-> 0]
  /\ overlapped = {}

Goto(t, record) == tx' = [tx EXCEPT ![t] = record]
Begin(t, who, record) ==
  /\ tx[t] = Idle
  /\ made' = [made EXCEPT ![who] = @ + 1]
  /\ Goto(t, record)
  /\ UNCHANGED <<content, user, token, report, acts, overlapped>>

\* authenticate_access_token lets only enabled accounts in.
SignedIn(u) == user[u].status = "active"

\* The columns that a request has changed since it loaded the row.
Flush(row, seen, wanted) ==
  [f \in DOMAIN row |-> IF wanted[f] = seen[f] THEN row[f] ELSE wanted[f]]

-----------------------------------------------------------------------------
(* Locks. *)

\* The row of the account, from the flush of a new address, or FOR UPDATE.
HoldsAccount(t) == tx[t].pc \in {"updated", "locked"}
AccountFree(t, u) == \A s \in Txs \ {t} : ~(HoldsAccount(s) /\ tx[s].user = u)

\* verify_email holds its token FOR UPDATE, a resend those that it marks used.
HoldsTokens(t) == IF tx[t].pc \in {"verify", "resend"} THEN tx[t].tokens ELSE {}
TokensFree(t, S) == \A s \in Txs \ {t} : HoldsTokens(s) \cap S = {}

LiveTokens(u) == {k \in Tokens : token[k] # NoToken /\ token[k].user = u /\ token[k].status = "live"}
Void(S) == [k \in Tokens |-> IF k \in S THEN [token[k] EXCEPT !.status = "void"] ELSE token[k]]

AddressRequests == {"update", "updated", "verify", "resend"}
CountOverlaps(t, u) ==
  overlapped' = IF \E s \in Txs \ {t} : tx[s].pc \in AddressRequests /\ tx[s].user = u
                THEN overlapped \cup {u} ELSE overlapped

-----------------------------------------------------------------------------
(* Addresses. *)

Taken(address) == \E u \in Registered : user[u].address = address
\* Or it is in the unique index already, by a request that has not committed.
Claimed(address) == Taken(address) \/ \E t \in Txs : tx[t].pc = "updated" /\ tx[t].wanted.address = address

register_user(t, u, address) ==
  /\ user[u] = NoUser
  /\ ~Taken(address)
  /\ Begin(t, "members", [pc |-> "register", user |-> u, address |-> address])

\* The row and the first token.  The unique keys turn a second one away.
CommitRegister(t, k) ==
  LET r == tx[t] IN
  /\ r.pc = "register"
  /\ user[r.user] = NoUser /\ ~Claimed(r.address)
  /\ Unused(k, token)
  /\ user' = [user EXCEPT ![r.user] = NewAccount("user", r.address)]
  /\ token' = [token EXCEPT ![k] = [user |-> r.user, address |-> r.address, status |-> "live"]]
  /\ Goto(t, Idle)
  /\ UNCHANGED <<content, report, made, acts, overlapped>>

\* create_email_verification for an account that has no proof yet: the tokens
\* that its UPDATE finds are marked used ...
resend_email_verification(t, u) ==
  /\ SignedIn(u) /\ ~user[u].verified
  /\ TokensFree(t, LiveTokens(u))
  /\ Begin(t, "members", [pc |-> "resend", user |-> u, address |-> user[u].address, tokens |-> LiveTokens(u)])

\* ... and one is inserted, for the address that was loaded.
CommitResend(t, k) ==
  LET r == tx[t] IN
  /\ r.pc = "resend"
  /\ AccountFree(t, r.user)
  /\ Unused(k, token)
  /\ token' = [Void(r.tokens) EXCEPT ![k] = [user |-> r.user, address |-> r.address, status |-> "live"]]
  /\ CountOverlaps(t, r.user)
  /\ Goto(t, Idle)
  /\ UNCHANGED <<content, user, report, made, acts>>

\* A link is followed, by somebody who has read the mail.  An expired token is
\* refused, as one that is used.
verify_email(t, k) ==
  /\ token[k].status = "live"
  /\ TokensFree(t, {k})
  /\ Begin(t, "members", [pc |-> "verify", user |-> token[k].user, tokens |-> {k},
               seen |-> user[token[k].user], wanted |-> [user[token[k].user] EXCEPT !.verified = TRUE]])

CommitVerify(t) ==
  LET r == tx[t] IN
  /\ r.pc = "verify"
  /\ AccountFree(t, r.user)
  /\ user' = [user EXCEPT ![r.user] = Flush(@, r.seen, r.wanted)]
  /\ token' = [k \in Tokens |-> IF k \in r.tokens THEN [token[k] EXCEPT !.status = "used"] ELSE token[k]]
  /\ CountOverlaps(t, r.user)
  /\ Goto(t, Idle)
  /\ UNCHANGED <<content, report, made, acts>>

\* update_user with an email.
update_user(t, u, address) ==
  /\ SignedIn(u)
  /\ address # user[u].address /\ ~Taken(address)
  /\ Begin(t, "members", [pc |-> "update", user |-> u, seen |-> user[u],
               wanted |-> [user[u] EXCEPT !.address = address, !.verified = FALSE]])

\* The UPDATE of the tokens flushes the account first, which takes its row and
\* the address.
FlushUpdate(t) ==
  /\ tx[t].pc = "update"
  /\ AccountFree(t, tx[t].user)
  /\ ~Claimed(tx[t].wanted.address)
  /\ Goto(t, [tx[t] EXCEPT !.pc = "updated"])
  /\ UNCHANGED <<content, user, token, report, made, acts, overlapped>>

CommitUpdate_KeepTokens(t) ==
  LET r == tx[t] IN
  /\ r.pc = "updated"
  /\ user' = [user EXCEPT ![r.user] = Flush(@, r.seen, r.wanted)]
  /\ CountOverlaps(t, r.user)
  /\ Goto(t, Idle)
  /\ UNCHANGED <<content, token, report, made, acts>>
CommitUpdate(t) ==
  LET r == tx[t] IN
  /\ r.pc = "updated"
  /\ TokensFree(t, LiveTokens(r.user))
  /\ user' = [user EXCEPT ![r.user] = Flush(@, r.seen, r.wanted)]
  /\ token' = Void(LiveTokens(r.user))
  /\ CountOverlaps(t, r.user)
  /\ Goto(t, Idle)
  /\ UNCHANGED <<content, report, made, acts>>

-----------------------------------------------------------------------------
(* Staff. *)

\* Who may ask for what; the role is what authentication loaded.
Allowed(role, action) == role = "admin" \/ (role = "moderator" /\ action = "ban")

\* moderate_user, delete_user and change_user_role, with the moderator or admin
\* that asks.
moderate_user(t, actor, u, action) ==
  /\ SignedIn(actor) /\ Allowed(user[actor].role, action)
  /\ u \in Registered \ {actor}
  /\ Begin(t, "staff", [pc |-> "moderate", user |-> u, by |-> user[actor].role, action |-> action,
               report |-> None, outcome |-> "none", hide |-> FALSE])

\* The role that an admin's change gives.
change_user_role == [demote |-> "user", promote |-> "moderator"]

\* A ban ends a mute.
Moderated_MissingCase(standing, action) ==
  CASE action = "ban" -> [standing EXCEPT !.status = "banned", !.muted = FALSE]
    [] action = "unban" -> [standing EXCEPT !.status = "active"]
    [] action \in {"mute", "unmute"} -> [standing EXCEPT !.muted = (action = "mute")]
    [] action \in DOMAIN change_user_role -> [standing EXCEPT !.role = change_user_role[action]]
    [] OTHER -> [standing EXCEPT !.status = action]
Moderated(standing, action) ==
  CASE action = "ban" -> [standing EXCEPT !.status = "banned", !.muted = FALSE]
    [] action = "unban" -> [standing EXCEPT !.status = "active"]
    [] action = "mute" -> [standing EXCEPT !.muted = TRUE]
    [] action = "unmute" -> [standing EXCEPT !.muted = FALSE]
    [] action = "delete" -> [standing EXCEPT !.status = "deleted", !.muted = FALSE]
    [] action \in DOMAIN change_user_role -> [standing EXCEPT !.role = change_user_role[action]]

Wanted(account, action) ==
  LET m == Moderated(Standing(account), action) IN
  [account EXCEPT !.status = m.status, !.role = m.role, !.muted = m.muted,
                  !.address = IF action = "delete" THEN None ELSE @]

\* The account FOR UPDATE, and the checks of its role.
lock_account_Unlocked(t) ==
  LET r == tx[t] IN
  /\ r.pc = "moderate"
  /\ user[r.user].role # "admin"
  /\ r.by = "moderator" => user[r.user].role = "user"
  /\ Goto(t, [pc |-> "locked", user |-> r.user, by |-> r.by, action |-> r.action,
              report |-> r.report, outcome |-> r.outcome, hide |-> r.hide,
              seen |-> user[r.user], wanted |-> Wanted(user[r.user], r.action)])
  /\ UNCHANGED <<content, user, token, report, made, acts, overlapped>>
lock_account(t) ==
  LET r == tx[t] IN
  /\ r.pc = "moderate"
  /\ AccountFree(t, r.user)
  /\ user[r.user].role # "admin"
  /\ r.by = "moderator" => user[r.user].role = "user"
  /\ Goto(t, [pc |-> "locked", user |-> r.user, by |-> r.by, action |-> r.action,
              report |-> r.report, outcome |-> r.outcome, hide |-> r.hide,
              seen |-> user[r.user], wanted |-> Wanted(user[r.user], r.action)])
  /\ UNCHANGED <<content, user, token, report, made, acts, overlapped>>

\* The writes of resolve_report and apply_report_actions.
Decide(r) ==
  /\ report' = IF r.report = None THEN report ELSE [report EXCEPT ![r.report].status = r.outcome]
  /\ hidden' = (hidden \/ r.hide)

CommitModeration(t) ==
  LET r == tx[t] IN
  /\ r.pc = "locked"
  /\ user' = [user EXCEPT ![r.user] = Flush(@, r.seen, r.wanted)]
  /\ Decide(r)
  /\ acts' = [acts EXCEPT ![r.user] = Moderated(@, r.action)]
  /\ CountOverlaps(t, r.user)
  /\ Goto(t, Idle)
  /\ UNCHANGED <<scene, token, made>>

-----------------------------------------------------------------------------
(* Reports. *)

OpenReports(u) == {r \in Reports : report[r].status = "open" /\ report[r].reporter = u}

\* A message that is deleted can be reported.
create_report(t, u) ==
  /\ SignedIn(u)
  /\ indexed => ~hidden
  /\ OpenReports(u) = {}
  /\ Begin(t, "members", [pc |-> "report", user |-> u])

\* The indexes uq_reports_open_post and uq_reports_open_comment; messages have none.
CommitReport_NoIndex(t, r) ==
  /\ tx[t].pc = "report"
  /\ Unused(r, report)
  /\ report' = [report EXCEPT ![r] = [reporter |-> tx[t].user, status |-> "open"]]
  /\ Goto(t, Idle)
  /\ UNCHANGED <<content, user, token, made, acts, overlapped>>
CommitReport(t, r) ==
  /\ tx[t].pc = "report"
  /\ indexed => OpenReports(tx[t].user) = {}
  /\ Unused(r, report)
  /\ report' = [report EXCEPT ![r] = [reporter |-> tx[t].user, status |-> "open"]]
  /\ Goto(t, Idle)
  /\ UNCHANGED <<content, user, token, made, acts, overlapped>>

\* The report is read without a lock.
resolve_report(t, actor, r, outcome, hide, ban) ==
  /\ SignedIn(actor) /\ user[actor].role # "user"
  /\ report[r].status = "open"
  /\ outcome = "rejected" => ~hide /\ ~ban
  /\ ban => author # actor
  /\ Begin(t, "staff", [pc |-> IF ban THEN "decide_and_ban" ELSE "decide", user |-> author,
               by |-> user[actor].role, action |-> "ban",
               report |-> r, outcome |-> outcome, hide |-> hide])

\* The row of a report is locked by the flush of its decision.
HoldsReport(s, r) == tx[s].pc \in {"moderate", "locked", "resolve"} /\ tx[s].report = r

\* The decision is flushed and the target loaded: of one that is already deleted
\* nothing will be written, whatever the row says when it is locked (hide_post).
\* A ban of the author goes on with lock_account, and fails with it as a whole.
apply_report_actions(t) ==
  LET r == tx[t] IN
  /\ r.pc \in {"decide", "decide_and_ban"}
  /\ \A s \in Txs \ {t} : ~HoldsReport(s, r.report)
  /\ Goto(t, [pc |-> IF r.pc = "decide" THEN "resolve" ELSE "moderate", user |-> r.user, by |-> r.by,
              action |-> r.action, report |-> r.report, outcome |-> r.outcome, hide |-> r.hide /\ ~hidden])
  /\ UNCHANGED <<content, user, token, report, made, acts, overlapped>>

CommitResolve(t) ==
  /\ tx[t].pc = "resolve"
  /\ Decide(tx[t])
  /\ Goto(t, Idle)
  /\ UNCHANGED <<scene, user, token, made, acts, overlapped>>

-----------------------------------------------------------------------------
(* The content. *)

\* What is to be hidden is locked while its author is.
ContentFree == \A t \in Txs : ~(tx[t].pc = "locked" /\ tx[t].hide)
WriteContent(who, deleted) ==
  /\ ContentFree
  /\ hidden' = deleted
  /\ made' = [made EXCEPT ![who] = @ + 1]
  /\ UNCHANGED <<scene, user, token, report, tx, acts, overlapped>>

\* Staff hides posts, and admins comments, without a report.  A message is
\* hidden by a report only, and never restored.
hide_content(actor) ==
  /\ SignedIn(actor) /\ user[actor].role # "user"
  /\ indexed /\ WriteContent("staff", TRUE)
restore_content(actor) ==
  /\ SignedIn(actor) /\ user[actor].role = "admin"
  /\ indexed /\ WriteContent("staff", FALSE)
\* By the author, which leaves no entry in moderation_actions.
delete_content ==
  /\ SignedIn(author) /\ ~user[author].muted
  /\ ~hidden /\ WriteContent("members", TRUE)

\* A request fails at any point: a check, a unique key, a deadlock, a crash.
Rollback(t) ==
  /\ tx[t] # Idle
  /\ Goto(t, Idle)
  /\ UNCHANGED <<content, user, token, report, made, acts, overlapped>>

AboutAddress(t) ==
  \/ \E u \in Users, address \in Addresses : register_user(t, u, address) \/ update_user(t, u, address)
  \/ \E u \in Users : resend_email_verification(t, u)
  \/ \E k \in Tokens : verify_email(t, k) \/ CommitRegister(t, k) \/ CommitResend(t, k)
  \/ CommitVerify(t) \/ FlushUpdate(t) \/ CommitUpdate(t)

ByStaff(t) ==
  \/ \E actor, u \in Users, action \in Actions : moderate_user(t, actor, u, action)
  \/ \E actor \in Users, r \in Reports, outcome \in {"resolved", "rejected"}, hide, ban \in BOOLEAN :
       resolve_report(t, actor, r, outcome, hide, ban)
  \/ apply_report_actions(t) \/ lock_account(t) \/ CommitModeration(t) \/ CommitResolve(t)

AboutReports(t) ==
  \/ \E u \in Users : create_report(t, u)
  \/ \E r \in Reports : CommitReport(t, r)

AboutContent ==
  \/ \E actor \in Users : hide_content(actor) \/ restore_content(actor)
  \/ delete_content

Next ==
  \/ \E t \in Txs : AboutAddress(t) \/ ByStaff(t) \/ AboutReports(t) \/ Rollback(t)
  \/ AboutContent

Spec == Init /\ [][Next]_vars

-----------------------------------------------------------------------------
(* Properties. *)

TypeOK ==
  /\ user \in [Users -> Account \cup {NoUser}]
  /\ token \in [Tokens -> Token \cup {NoToken}]
  /\ report \in [Reports -> Report \cup {NoReport}]
  /\ hidden \in BOOLEAN /\ overlapped \subseteq Users

\* A verified address is one that a link was sent to, and the link was followed,
\* unless a change of address has overlapped with another request about it.
VerifiedIsProved ==
  \A u \in Registered \ overlapped :
    user[u].verified /\ user[u].address # None =>
      \E k \in Tokens : token[k] = [user |-> u, address |-> user[u].address, status |-> "used"]

\* No act of staff on an account is lost or half done: its status, role and mute
\* are what the committed acts come to, one applied after the other, though
\* several of them are under way at once and the account writes its own row
\* without a lock.
ActsAddUp == \A u \in Registered : Standing(user[u]) = acts[u]

\* A moderator's ban hits ordinary users only, whoever is promoted meanwhile
\* (docs/api-v1.md, "Reports and moderation").
ModeratorsBanUsers ==
  [][\A t \in Txs : CommitModeration(t) /\ tx[t].by = "moderator" => user[tx[t].user].role = "user"]_vars

\* A report that has been answered keeps its answer: "transitioned from `open` to
\* `resolved` or `rejected`" (docs/api-v1.md), and the code's own refusal of a
\* second decision.  Two members of staff who have both read it as open break it.
ReportDecidedOnce ==
  [][\A r \in Reports : report[r].status \in {"resolved", "rejected"} => report'[r] = report[r]]_vars

\* An account has one open report of a post or a comment at most.  Nothing
\* stops two requests that overlap from making two of a message.
OneOpenReport ==
  indexed => \A u \in Users : Cardinality(OpenReports(u)) <= 1
=============================================================================
