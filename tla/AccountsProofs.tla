---------------------------- MODULE AccountsProofs ----------------------------
(***************************************************************************)
(* Proofs about Accounts, for any number of accounts, addresses, requests, *)
(* tokens and reports.                                                     *)
(*                                                                         *)
(* Staff holds the account it acts on from its checks to its commit, so    *)
(* what it has loaded is what the row holds; this makes the acts add up    *)
(* and keeps moderators in their limits.  The account's own requests hold  *)
(* nothing: of these the invariant says only what they find when nothing   *)
(* has overlapped, which is what a verified address rests on.              *)
(***************************************************************************)
EXTENDS Accounts, FiniteSetTheorems, TLAPS

Staff == {"decide", "decide_and_ban", "moderate", "locked", "resolve"}
Own == {"verify", "update", "updated"}

Standings == [status : Statuses, role : Roles, muted : BOOLEAN]
OpenTx ==
  [pc : {"register"}, user : Users, address : Addresses]
    \cup [pc : {"resend"}, user : Users, address : Addresses \cup {None}, tokens : SUBSET Tokens]
    \cup [pc : {"verify"}, user : Users, tokens : SUBSET Tokens, seen : Account, wanted : Account]
    \cup [pc : {"update", "updated"}, user : Users, seen : Account, wanted : Account]
    \cup [pc : {"decide", "decide_and_ban", "moderate", "resolve"}, user : Users, by : Roles, action : Actions,
          report : Reports \cup {None}, outcome : {"none", "resolved", "rejected"}, hide : BOOLEAN]
    \cup [pc : {"locked"}, user : Users, by : Roles, action : Actions,
          report : Reports \cup {None}, outcome : {"none", "resolved", "rejected"}, hide : BOOLEAN,
          seen : Account, wanted : Account]
    \cup [pc : {"report"}, user : Users]

TablesOK ==
  /\ TypeOK
  /\ indexed \in BOOLEAN /\ author \in Registered
  /\ acts \in [Users -> Standings]
TxType == tx \in [Txs -> OpenTx \cup {Idle}]

\* Ids are given out in order.
IdsInOrder ==
  /\ \E n \in Nat : {k \in Tokens : token[k] # NoToken} = 1..n
  /\ \E n \in Nat : {r \in Reports : report[r] # NoReport} = 1..n

TokensOfAccounts == \A k \in Tokens : token[k] # NoToken => token[k].user \in Registered

\* Nobody has acted on an account before there is one.
ActsOnNobody == \A u \in Users \ Registered : acts[u] = Standing(NewAccount("user", None))

Locks ==
  \A s, t \in Txs : s # t =>
    /\ ~(HoldsAccount(s) /\ HoldsAccount(t) /\ tx[s].user = tx[t].user)
    /\ HoldsTokens(s) \cap HoldsTokens(t) = {}

\* What a request has loaded or checked, and is so still.
Held(t) ==
  /\ tx[t].pc \in AddressRequests \cup Staff => tx[t].user \in Registered
  /\ \A k \in HoldsTokens(t) : token[k] # NoToken /\ token[k].status = "live"
  /\ tx[t].pc = "verify" =>
       /\ tx[t].wanted = [tx[t].seen EXCEPT !.verified = TRUE]
       /\ \E k \in Tokens : tx[t].tokens = {k} /\ token[k].user = tx[t].user
  /\ tx[t].pc = "resend" => \A k \in tx[t].tokens : token[k].user = tx[t].user
  /\ tx[t].pc \in {"update", "updated"} =>
       \E a \in Addresses : tx[t].wanted = [tx[t].seen EXCEPT !.address = a, !.verified = FALSE]
  /\ tx[t].pc \in Staff /\ tx[t].report # None =>
       report[tx[t].report] # NoReport /\ tx[t].outcome # "none"
  /\ tx[t].pc \in Staff /\ tx[t].report = None => ~tx[t].hide
  /\ tx[t].pc = "locked" =>
       /\ tx[t].seen = user[tx[t].user]
       /\ tx[t].wanted = Wanted(tx[t].seen, tx[t].action)
       /\ tx[t].by = "moderator" => tx[t].seen.role = "user"

\* And when nothing has overlapped on the account.
Calm(t) ==
  /\ tx[t].pc \in Own /\ tx[t].user \notin overlapped =>
       /\ tx[t].seen.address = user[tx[t].user].address
       /\ tx[t].seen.verified = user[tx[t].user].verified
  /\ tx[t].pc = "resend" /\ tx[t].user \notin overlapped =>
       tx[t].address = user[tx[t].user].address

\* A link that still works is for the address that the account has.
LinksMatch ==
  \A k \in Tokens :
    token[k] # NoToken /\ token[k].status = "live" /\ token[k].user \notin overlapped =>
      user[token[k].user].address \in {token[k].address, None}

OneOpen ==
  indexed => \A r, s \in Reports :
    report[r].status = "open" /\ report[s].status = "open" /\ report[r].reporter = report[s].reporter => r = s

Tables ==
  /\ TablesOK /\ IdsInOrder /\ TokensOfAccounts /\ ActsOnNobody
  /\ ActsAddUp /\ OneOpen /\ LinksMatch /\ VerifiedIsProved

IInv == Tables /\ TxType /\ Locks /\ \A t \in Txs : Held(t) /\ Calm(t)

-----------------------------------------------------------------------------
(* Rows. *)

LEMMA RowFields ==
  ASSUME TypeOK
  PROVE /\ \A u \in Registered : user[u] \in Account /\ u \in Users
        /\ \A u \in Users : user[u].status \in Statuses => u \in Registered
        /\ \A k \in Tokens : token[k] # NoToken => token[k] \in Token
        /\ \A k \in Tokens : token[k].status # "none" <=> token[k] # NoToken
        /\ \A r \in Reports : report[r] # NoReport => report[r] \in Report
        /\ \A r \in Reports : report[r].status # "none" <=> report[r] # NoReport
BY DEF TypeOK, Registered, NoUser, NoToken, NoReport, Statuses, Token, Report

LEMMA FlushFields ==
  ASSUME NEW r \in Account, NEW seen \in Account, NEW wanted \in Account
  PROVE /\ Flush(r, seen, wanted) \in Account
        /\ Flush(r, seen, wanted).status = IF wanted.status = seen.status THEN r.status ELSE wanted.status
        /\ Flush(r, seen, wanted).role = IF wanted.role = seen.role THEN r.role ELSE wanted.role
        /\ Flush(r, seen, wanted).muted = IF wanted.muted = seen.muted THEN r.muted ELSE wanted.muted
        /\ Flush(r, seen, wanted).address = IF wanted.address = seen.address THEN r.address ELSE wanted.address
        /\ Flush(r, seen, wanted).verified = IF wanted.verified = seen.verified THEN r.verified ELSE wanted.verified
<1>1. DOMAIN r = {"status", "role", "muted", "address", "verified"}
  BY DEF Account
<1>2. Flush(r, seen, wanted) =
        [f \in {"status", "role", "muted", "address", "verified"} |->
           IF wanted[f] = seen[f] THEN r[f] ELSE wanted[f]]
  BY <1>1 DEF Flush
<1>3. Flush(r, seen, wanted) \in Account
  BY DEF Account, Flush
<1> QED  BY <1>2, <1>3

\* Under the lock what was loaded is what is there, and all that was wanted is written.
LEMMA FlushLoaded ==
  ASSUME NEW r \in Account, NEW wanted \in Account
  PROVE Flush(r, r, wanted) = wanted
BY DEF Account, Flush

LEMMA ModeratedType ==
  ASSUME NEW s \in Standings, NEW action \in Actions PROVE Moderated(s, action) \in Standings
<1>1. CASE action \in {"demote", "promote"}
  <2>1. Moderated(s, action) = [s EXCEPT !.role = change_user_role[action]] /\ change_user_role[action] \in Roles
    BY <1>1 DEF Moderated, change_user_role, Roles
  <2> QED  BY <2>1 DEF Standings
<1>2. CASE action = "ban"
  BY <1>2 DEF Moderated, change_user_role, Standings, Statuses
<1>3. CASE action = "unban"
  BY <1>3 DEF Moderated, change_user_role, Standings, Statuses
<1>4. CASE action = "mute"
  BY <1>4 DEF Moderated, change_user_role, Standings, Statuses
<1>5. CASE action = "unmute"
  BY <1>5 DEF Moderated, change_user_role, Standings, Statuses
<1>6. CASE action = "delete"
  BY <1>6 DEF Moderated, change_user_role, Standings, Statuses
<1> QED  BY <1>1, <1>2, <1>3, <1>4, <1>5, <1>6 DEF Actions

LEMMA WantedFields ==
  ASSUME NEW account \in Account, NEW action \in Actions
  PROVE /\ Wanted(account, action) \in Account
        /\ Standing(Wanted(account, action)) = Moderated(Standing(account), action)
        /\ Wanted(account, action).verified = account.verified
        /\ Wanted(account, action).address \in {account.address, None}
<1> DEFINE m == Moderated(Standing(account), action)
<1>1. Standing(account) \in Standings
  BY DEF Standing, Standings, Account
<1>2. m \in Standings
  BY <1>1, ModeratedType
<1>3. Wanted(account, action) =
        [account EXCEPT !.status = m.status, !.role = m.role, !.muted = m.muted,
                        !.address = IF action = "delete" THEN None ELSE @]
  BY DEF Wanted
<1> HIDE DEF m
<1>4. /\ Wanted(account, action) \in Account
      /\ Standing(Wanted(account, action)) = m
      /\ Wanted(account, action).verified = account.verified
      /\ Wanted(account, action).address \in {account.address, None}
  BY <1>2, <1>3 DEF Account, Standings, Standing
<1> QED  BY <1>4 DEF m

LEMMA UnusedToken ==
  ASSUME TypeOK, IdsInOrder, NEW k \in Tokens, Unused(k, token)
  PROVE token[k] = NoToken /\ \E n \in Nat : {j \in Tokens : token[j] # NoToken \/ j = k} = 1..n
<1> PICK n \in Nat : {j \in Tokens : token[j] # NoToken} = 1..n
  BY DEF IdsInOrder
<1>1. {j \in DOMAIN token : token[j].status # "none"} = 1..n
  <2>1. DOMAIN token = Tokens
    BY DEF TypeOK
  <2>2. \A j \in Tokens : token[j].status # "none" <=> token[j] # NoToken
    BY RowFields
  <2>3. {j \in DOMAIN token : token[j].status # "none"} = {j \in Tokens : token[j] # NoToken}
    BY <2>1, <2>2
  <2> QED  BY <2>3
<1>2. Cardinality(1..n) = n
  BY FS_Interval
<1>3. k = n + 1
  BY <1>1, <1>2 DEF Unused
<1>4. token[k] = NoToken
  BY <1>3
<1>5. {j \in Tokens : token[j] # NoToken \/ j = k} = 1..(n + 1)
  <2>1. {j \in Tokens : token[j] # NoToken \/ j = k} = (1..n) \cup {k}
    OBVIOUS
  <2>2. (1..n) \cup {n + 1} = 1..(n + 1)
    OBVIOUS
  <2> QED  BY <2>1, <2>2, <1>3
<1> QED  BY <1>4, <1>5

LEMMA UnusedReport ==
  ASSUME TypeOK, IdsInOrder, NEW r \in Reports, Unused(r, report)
  PROVE report[r] = NoReport /\ \E n \in Nat : {j \in Reports : report[j] # NoReport \/ j = r} = 1..n
<1> PICK n \in Nat : {j \in Reports : report[j] # NoReport} = 1..n
  BY DEF IdsInOrder
<1>1. {j \in DOMAIN report : report[j].status # "none"} = 1..n
  <2>1. DOMAIN report = Reports
    BY DEF TypeOK
  <2>2. \A j \in Reports : report[j].status # "none" <=> report[j] # NoReport
    BY RowFields
  <2>3. {j \in DOMAIN report : report[j].status # "none"} = {j \in Reports : report[j] # NoReport}
    BY <2>1, <2>2
  <2> QED  BY <2>3
<1>2. Cardinality(1..n) = n
  BY FS_Interval
<1>3. r = n + 1
  BY <1>1, <1>2 DEF Unused
<1>4. report[r] = NoReport
  BY <1>3
<1>5. {j \in Reports : report[j] # NoReport \/ j = r} = 1..(n + 1)
  <2>1. {j \in Reports : report[j] # NoReport \/ j = r} = (1..n) \cup {r}
    OBVIOUS
  <2>2. (1..n) \cup {n + 1} = 1..(n + 1)
    OBVIOUS
  <2> QED  BY <2>1, <2>2, <1>3
<1> QED  BY <1>4, <1>5

-----------------------------------------------------------------------------
(* Requests. *)

LEMMA IdleFields == Idle.pc = "idle"
BY DEF Idle

LEMMA TxFields ==
  ASSUME TxType, NEW t \in Txs
  PROVE /\ tx[t] \in OpenTx \cup {Idle}
        /\ tx[t].pc = "register" => tx[t].user \in Users /\ tx[t].address \in Addresses
        /\ tx[t].pc = "resend" => /\ tx[t].user \in Users /\ tx[t].address \in Addresses \cup {None}
                                  /\ tx[t].tokens \subseteq Tokens
        /\ tx[t].pc = "verify" => tx[t].tokens \subseteq Tokens
        /\ tx[t].pc \in Own \cup {"locked"} => /\ tx[t].user \in Users
                                               /\ tx[t].seen \in Account /\ tx[t].wanted \in Account
        /\ tx[t].pc \in Staff => /\ tx[t].user \in Users /\ tx[t].by \in Roles /\ tx[t].action \in Actions
                                 /\ tx[t].report \in Reports \cup {None}
                                 /\ tx[t].outcome \in {"none", "resolved", "rejected"}
                                 /\ tx[t].hide \in BOOLEAN
        /\ tx[t].pc = "report" => tx[t].user \in Users
        /\ tx[t].pc \in {"update", "updated"} =>
             tx[t] \in [pc : {"update", "updated"}, user : Users, seen : Account, wanted : Account]
<1>1. tx[t] \in OpenTx \cup {Idle}
  BY DEF TxType
<1> QED  BY <1>1, IdleFields DEF OpenTx, Own, Staff

LEMMA GotoOthers ==
  ASSUME TxType, NEW t \in Txs, NEW r \in OpenTx \cup {Idle}, Goto(t, r)
  PROVE /\ TxType'
        /\ tx'[t] = r
        /\ \A s \in Txs \ {t} : tx'[s] = tx[s]
BY DEF Goto, TxType

\* What a request has loaded stays, if nobody touches what it holds.
LEMMA HeldStays ==
  ASSUME IInv, NEW s \in Txs, tx'[s] = tx[s],
         Registered \subseteq Registered',
         \A k \in HoldsTokens(s) : token'[k] = token[k],
         \A r \in Reports : report[r] # NoReport => report'[r] # NoReport,
         tx[s].pc = "locked" => user'[tx[s].user] = user[tx[s].user]
  PROVE Held(s)'
<1> DEFINE r == tx[s]
<1>1. Held(s) /\ HoldsTokens(s)' = HoldsTokens(s)
  BY DEF IInv, HoldsTokens
<1>2. (r.pc \in AddressRequests \cup Staff => r.user \in Registered)'
  BY <1>1 DEF Held
<1>3. (\A k \in HoldsTokens(s) : token[k] # NoToken /\ token[k].status = "live")'
  <2>1. \A k \in HoldsTokens(s) : token'[k] = token[k] /\ token[k] # NoToken /\ token[k].status = "live"
    BY <1>1 DEF Held
  <2> QED  BY <2>1, <1>1 DEF NoToken
<1>4. (r.pc = "verify" =>
       /\ r.wanted = [r.seen EXCEPT !.verified = TRUE]
       /\ \E k \in Tokens : r.tokens = {k} /\ token[k].user = r.user)'
  BY <1>1 DEF Held, HoldsTokens
<1>5. (r.pc = "resend" => \A k \in r.tokens : token[k].user = r.user)'
  BY <1>1 DEF Held, HoldsTokens
<1>6. (r.pc \in {"update", "updated"} =>
       \E a \in Addresses : r.wanted = [r.seen EXCEPT !.address = a, !.verified = FALSE])'
  BY <1>1 DEF Held
<1>7. (r.pc \in Staff /\ r.report # None => report[r.report] # NoReport /\ r.outcome # "none")'
  <2>1. r.pc \in Staff /\ r.report # None =>
          r.report \in Reports /\ report[r.report] # NoReport /\ r.outcome # "none"
    BY <1>1, TxFields DEF Held, IInv
  <2> QED  BY <2>1 DEF NoReport
<1>8. (r.pc \in Staff /\ r.report = None => ~r.hide)'
  BY <1>1 DEF Held
<1>9. (r.pc = "locked" =>
       /\ r.seen = user[r.user]
       /\ r.wanted = Wanted(r.seen, r.action)
       /\ r.by = "moderator" => r.seen.role = "user")'
  BY <1>1 DEF Held, Wanted, Moderated, Standing
<1> QED  BY <1>2, <1>3, <1>4, <1>5, <1>6, <1>7, <1>8, <1>9 DEF Held

LEMMA CalmStays ==
  ASSUME IInv, NEW s \in Txs, tx'[s] = tx[s],
         overlapped \subseteq overlapped',
         tx[s].pc \in AddressRequests /\ tx[s].user \notin overlapped' =>
           /\ user'[tx[s].user].address = user[tx[s].user].address
           /\ user'[tx[s].user].verified = user[tx[s].user].verified
  PROVE Calm(s)'
<1>1. Calm(s)
  BY DEF IInv
<1> QED  BY <1>1 DEF Calm, Own, AddressRequests

\* A request that begins or goes on to a lock touches no table.
LEMMA OnlyTx ==
  ASSUME IInv, NEW t \in Txs, NEW r \in OpenTx \cup {Idle}, Goto(t, r),
         UNCHANGED <<content, user, token, report, acts, overlapped>>,
         Held(t)', Calm(t)',
         r.pc \in {"updated", "locked"} => AccountFree(t, r.user),
         r.pc \in {"verify", "resend"} => TokensFree(t, r.tokens)
  PROVE IInv'
<1>1. TxType' /\ tx'[t] = r /\ \A s \in Txs \ {t} : tx'[s] = tx[s]
  BY GotoOthers DEF IInv
<1>2. Tables'
  BY DEF IInv, Tables, TablesOK, TypeOK, IdsInOrder, TokensOfAccounts, ActsOnNobody, ActsAddUp,
         OneOpen, LinksMatch, VerifiedIsProved, Registered, content, scene
<1>3. ASSUME NEW s \in Txs PROVE Held(s)' /\ Calm(s)'
  <2>1. CASE s = t
    BY <2>1
  <2>2. CASE s # t
    BY <2>2, <1>1, HeldStays, CalmStays DEF Registered
  <2> QED  BY <2>1, <2>2
<1>4. Locks'
  <2> SUFFICES ASSUME NEW s \in Txs, NEW q \in Txs, s # q
               PROVE /\ ~(HoldsAccount(s) /\ HoldsAccount(q) /\ tx[s].user = tx[q].user)'
                     /\ (HoldsTokens(s) \cap HoldsTokens(q) = {})'
    BY DEF Locks
  <2>1. CASE s # t /\ q # t
    BY <2>1, <1>1 DEF IInv, Locks, HoldsAccount, HoldsTokens
  <2>2. CASE s = t
    BY <2>2, <1>1 DEF HoldsAccount, HoldsTokens, AccountFree, TokensFree
  <2>3. CASE q = t
    BY <2>3, <1>1 DEF HoldsAccount, HoldsTokens, AccountFree, TokensFree
  <2> QED  BY <2>1, <2>2, <2>3
<1> QED  BY <1>1, <1>2, <1>3, <1>4 DEF IInv


LEMMA BeginRegister ==
  ASSUME IInv, NEW t \in Txs, NEW u \in Users, NEW address \in Addresses, register_user(t, u, address)
  PROVE IInv'
<1> DEFINE r == [pc |-> "register", user |-> u, address |-> address]
<1>1. r \in OpenTx /\ Goto(t, r) /\ UNCHANGED <<content, user, token, report, acts, overlapped>>
  BY DEF OpenTx, register_user, Begin
<1>2. tx'[t] = r
  BY <1>1, GotoOthers DEF IInv
<1>3. Held(t)' /\ Calm(t)'
  BY <1>2 DEF Held, Calm, HoldsTokens, AddressRequests, Staff, Own
<1> QED  BY <1>1, <1>3, OnlyTx

LEMMA BeginResend ==
  ASSUME IInv, NEW t \in Txs, NEW u \in Users, resend_email_verification(t, u)
  PROVE IInv'
<1> DEFINE r == [pc |-> "resend", user |-> u, address |-> user[u].address, tokens |-> LiveTokens(u)]
<1>1. Goto(t, r) /\ UNCHANGED <<content, user, token, report, acts, overlapped>> /\ TokensFree(t, LiveTokens(u))
  BY DEF resend_email_verification, Begin
<1>2. u \in Registered /\ user[u] \in Account
  BY RowFields DEF IInv, Tables, TablesOK, resend_email_verification, SignedIn, Statuses
<1>3. LiveTokens(u) \subseteq Tokens
  BY DEF LiveTokens
<1>4. user[u].address \in Addresses \cup {None}
  BY <1>2 DEF Account
<1>5. r \in OpenTx
  BY <1>3, <1>4 DEF OpenTx
<1>6. tx'[t] = r
  BY <1>1, <1>5, GotoOthers DEF IInv
<1>7. Held(t)'
  BY <1>1, <1>2, <1>6 DEF Held, HoldsTokens, LiveTokens, Registered, AddressRequests, Staff, NoToken
<1>8. Calm(t)'
  BY <1>1, <1>6 DEF Calm, Own
<1> QED  BY <1>1, <1>5, <1>7, <1>8, OnlyTx

LEMMA BeginVerify ==
  ASSUME IInv, NEW t \in Txs, NEW k \in Tokens, verify_email(t, k)
  PROVE IInv'
<1> DEFINE u == token[k].user
           r == [pc |-> "verify", user |-> u, tokens |-> {k},
                 seen |-> user[u], wanted |-> [user[u] EXCEPT !.verified = TRUE]]
<1>1. Goto(t, r) /\ UNCHANGED <<content, user, token, report, acts, overlapped>> /\ TokensFree(t, {k})
  BY DEF verify_email, Begin
<1>2. token[k] # NoToken /\ token[k].status = "live"
  BY DEF verify_email, NoToken
<1>3. u \in Registered /\ u \in Users /\ user[u] \in Account
  BY <1>2, RowFields DEF IInv, Tables, TablesOK, TokensOfAccounts
<1>4. [user[u] EXCEPT !.verified = TRUE] \in Account
  BY <1>3 DEF Account
<1>5. r \in OpenTx
  BY <1>3, <1>4 DEF OpenTx
<1>6. tx'[t] = r
  BY <1>1, <1>5, GotoOthers DEF IInv
<1>7. Held(t)'
  <2>1. /\ tx'[t].pc = "verify" /\ tx'[t].user = token'[k].user /\ tx'[t].tokens = {k}
        /\ tx'[t].wanted = [tx'[t].seen EXCEPT !.verified = TRUE]
    BY <1>1, <1>6
  <2>2. tx'[t].user \in Registered' /\ token'[k] # NoToken' /\ token'[k].status = "live"
    BY <1>1, <1>2, <1>3, <2>1 DEF Registered, NoToken
  <2> QED  BY <2>1, <2>2 DEF Held, HoldsTokens, AddressRequests, Staff
<1>8. Calm(t)'
  BY <1>1, <1>6 DEF Calm, Own
<1> QED  BY <1>1, <1>5, <1>7, <1>8, OnlyTx

LEMMA BeginUpdate ==
  ASSUME IInv, NEW t \in Txs, NEW u \in Users, NEW address \in Addresses, update_user(t, u, address)
  PROVE IInv'
<1> DEFINE w == [user[u] EXCEPT !.address = address, !.verified = FALSE]
           r == [pc |-> "update", user |-> u, seen |-> user[u], wanted |-> w]
<1>1. Goto(t, r) /\ UNCHANGED <<content, user, token, report, acts, overlapped>>
  BY DEF update_user, Begin
<1>2. u \in Registered /\ user[u] \in Account
  BY RowFields DEF IInv, Tables, TablesOK, update_user, SignedIn, Statuses
<1>3. w \in Account
  BY <1>2 DEF Account
<1>4. r \in OpenTx
  BY <1>2, <1>3 DEF OpenTx
<1>5. tx'[t] = r
  BY <1>1, <1>4, GotoOthers DEF IInv
<1>6. Held(t)'
  <2>1. /\ tx'[t].pc = "update" /\ tx'[t].user = u
        /\ tx'[t].wanted = [tx'[t].seen EXCEPT !.address = address, !.verified = FALSE]
    BY <1>5
  <2>2. \E a \in Addresses : tx'[t].wanted = [tx'[t].seen EXCEPT !.address = a, !.verified = FALSE]
    BY <2>1
  <2>3. u \in Registered'
    BY <1>1, <1>2 DEF Registered
  <2> QED  BY <2>1, <2>2, <2>3 DEF Held, HoldsTokens, AddressRequests, Staff
<1>7. Calm(t)'
  BY <1>1, <1>5 DEF Calm, Own
<1> QED  BY <1>1, <1>4, <1>6, <1>7, OnlyTx

LEMMA StepFlushUpdate ==
  ASSUME IInv, NEW t \in Txs, FlushUpdate(t)
  PROVE IInv'
<1> DEFINE r == [tx[t] EXCEPT !.pc = "updated"]
<1>1. Goto(t, r) /\ UNCHANGED <<content, user, token, report, acts, overlapped>> /\ AccountFree(t, tx[t].user)
  BY DEF FlushUpdate
<1>2. tx[t].pc = "update" /\ Held(t) /\ Calm(t)
  BY DEF FlushUpdate, IInv
<1>3. tx[t] \in [pc : {"update", "updated"}, user : Users, seen : Account, wanted : Account]
  BY <1>2, TxFields DEF IInv
<1>4. r = [pc |-> "updated", user |-> tx[t].user, seen |-> tx[t].seen, wanted |-> tx[t].wanted]
  BY <1>3
<1>5. r \in OpenTx
  BY <1>3, <1>4 DEF OpenTx
<1>6. tx'[t] = r
  BY <1>1, <1>5, GotoOthers DEF IInv
<1> HIDE DEF r
<1>7. Held(t)'
  <2>1. /\ tx'[t].pc = "updated" /\ tx'[t].user = tx[t].user
        /\ tx'[t].seen = tx[t].seen /\ tx'[t].wanted = tx[t].wanted
    BY <1>4, <1>6
  <2>2. \E a \in Addresses : tx'[t].wanted = [tx'[t].seen EXCEPT !.address = a, !.verified = FALSE]
    BY <1>2, <2>1 DEF Held
  <2>3. tx[t].user \in Registered'
    BY <1>1, <1>2 DEF Held, Registered, AddressRequests
  <2> QED  BY <2>1, <2>2, <2>3 DEF Held, HoldsTokens, AddressRequests, Staff
<1>8. Calm(t)'
  BY <1>1, <1>2, <1>4, <1>6 DEF Calm, Own
<1> QED  BY <1>1, <1>4, <1>5, <1>7, <1>8, OnlyTx


LEMMA BeginModerate ==
  ASSUME IInv, NEW t \in Txs, NEW actor \in Users, NEW u \in Users, NEW action \in Actions,
         moderate_user(t, actor, u, action)
  PROVE IInv'
<1> DEFINE r == [pc |-> "moderate", user |-> u, by |-> user[actor].role, action |-> action,
                 report |-> None, outcome |-> "none", hide |-> FALSE]
<1>1. Goto(t, r) /\ UNCHANGED <<content, user, token, report, acts, overlapped>>
      /\ u \in Registered /\ SignedIn(actor)
  BY DEF moderate_user, Begin
<1>2. user[actor] \in Account
  BY <1>1, RowFields DEF IInv, Tables, TablesOK, SignedIn, Statuses
<1>3. user[actor].role \in Roles
  BY <1>2 DEF Account
<1>4. r \in OpenTx
  BY <1>3 DEF OpenTx
<1>5. tx'[t] = r
  BY <1>1, <1>4, GotoOthers DEF IInv
<1>6. Held(t)' /\ Calm(t)'
  BY <1>1, <1>5 DEF Held, HoldsTokens, Registered, AddressRequests, Staff, Calm, Own
<1> QED  BY <1>1, <1>4, <1>6, OnlyTx

LEMMA BeginResolve ==
  ASSUME IInv, NEW t \in Txs, NEW actor \in Users, NEW k \in Reports,
         NEW outcome \in {"resolved", "rejected"}, NEW hide \in BOOLEAN, NEW ban \in BOOLEAN,
         resolve_report(t, actor, k, outcome, hide, ban)
  PROVE IInv'
<1> PICK pc \in {"decide", "decide_and_ban"} : pc = IF ban THEN "decide_and_ban" ELSE "decide"
  OBVIOUS
<1> DEFINE r == [pc |-> pc, user |-> author, by |-> user[actor].role, action |-> "ban",
                 report |-> k, outcome |-> outcome, hide |-> hide]
<1>1. Goto(t, r) /\ UNCHANGED <<content, user, token, report, acts, overlapped>>
      /\ SignedIn(actor) /\ report[k].status = "open"
  BY DEF resolve_report, Begin
<1>2. user[actor] \in Account /\ author \in Registered /\ author \in Users
  BY <1>1, RowFields DEF IInv, Tables, TablesOK, SignedIn, Statuses
<1>3. user[actor].role \in Roles
  BY <1>2 DEF Account
<1>4. r \in OpenTx
  BY <1>2, <1>3 DEF OpenTx, Actions
<1>5. tx'[t] = r
  BY <1>1, <1>4, GotoOthers DEF IInv
<1>6. report'[k] # NoReport' /\ k # None
  BY <1>1, NoneAssumption DEF NoReport, Reports
<1>7. Held(t)' /\ Calm(t)'
  BY <1>1, <1>2, <1>5, <1>6 DEF Held, HoldsTokens, Registered, AddressRequests, Staff, Calm, Own
<1> QED  BY <1>1, <1>4, <1>7, OnlyTx

LEMMA StepApply ==
  ASSUME IInv, NEW t \in Txs, apply_report_actions(t)
  PROVE IInv'
<1> DEFINE o == tx[t]
           r == [pc |-> IF o.pc = "decide" THEN "resolve" ELSE "moderate", user |-> o.user, by |-> o.by,
                 action |-> o.action, report |-> o.report, outcome |-> o.outcome, hide |-> o.hide /\ ~hidden]
<1>1. /\ Goto(t, r) /\ UNCHANGED <<content, user, token, report, acts, overlapped>>
      /\ o.pc \in {"decide", "decide_and_ban"}
  BY DEF apply_report_actions
<1>2. Held(t) /\ hidden \in BOOLEAN
  BY DEF IInv, Tables, TablesOK, TypeOK
<1>3. o \in [pc : {"decide", "decide_and_ban", "moderate", "resolve"}, user : Users, by : Roles, action : Actions,
            report : Reports \cup {None}, outcome : {"none", "resolved", "rejected"}, hide : BOOLEAN]
  BY <1>1, IdleFields DEF IInv, TxType, OpenTx
<1>4. r.hide \in BOOLEAN /\ (~o.hide => ~r.hide)
  BY <1>2, <1>3
<1>5. r \in OpenTx
  BY <1>1, <1>3 DEF OpenTx
<1>6. tx'[t] = r
  BY <1>1, <1>5, GotoOthers DEF IInv
<1>7. /\ o.user \in Registered
      /\ o.report # None => report[o.report] # NoReport /\ o.outcome # "none"
      /\ o.report = None => ~o.hide
  BY <1>1, <1>2 DEF Held, Staff
<1>8. Held(t)' /\ Calm(t)'
  <2>1. /\ tx'[t].pc \in {"resolve", "moderate"} /\ tx'[t].user = o.user /\ tx'[t].report = o.report
        /\ tx'[t].outcome = o.outcome /\ (tx'[t].hide => o.hide)
    BY <1>4, <1>6
  <2>2. /\ o.user \in Registered'
        /\ o.report # None => report'[o.report] # NoReport' /\ o.outcome # "none"
        /\ o.report = None => ~o.hide
    BY <1>1, <1>7 DEF Registered, NoReport
  <2> QED  BY <2>1, <2>2 DEF Held, HoldsTokens, AddressRequests, Staff, Calm, Own
<1>9. r.pc \notin {"updated", "locked", "verify", "resend"}
  OBVIOUS
<1> HIDE DEF r
<1> QED  BY <1>1, <1>5, <1>8, <1>9, OnlyTx

LEMMA StepLock ==
  ASSUME IInv, NEW t \in Txs, lock_account(t)
  PROVE IInv'
<1> DEFINE o == tx[t]
           r == [pc |-> "locked", user |-> o.user, by |-> o.by, action |-> o.action,
                 report |-> o.report, outcome |-> o.outcome, hide |-> o.hide,
                 seen |-> user[o.user], wanted |-> Wanted(user[o.user], o.action)]
<1>1. /\ Goto(t, r) /\ UNCHANGED <<content, user, token, report, acts, overlapped>>
      /\ AccountFree(t, o.user) /\ o.pc = "moderate"
      /\ o.by = "moderator" => user[o.user].role = "user"
  BY DEF lock_account
<1>2. Held(t)
  BY DEF IInv
<1>3. o.user \in Registered
  BY <1>1, <1>2 DEF Held, Staff
<1>4. o.user \in Users /\ user[o.user] \in Account
  BY <1>3, RowFields DEF IInv, Tables, TablesOK
<1>5. /\ o.by \in Roles /\ o.action \in Actions /\ o.report \in Reports \cup {None}
      /\ o.outcome \in {"none", "resolved", "rejected"} /\ o.hide \in BOOLEAN
  BY <1>1, TxFields DEF IInv, Staff
<1>6. Wanted(user[o.user], o.action) \in Account
  BY <1>4, <1>5, WantedFields
<1>7. r \in OpenTx
  BY <1>4, <1>5, <1>6 DEF OpenTx
<1>8. tx'[t] = r
  BY <1>1, <1>7, GotoOthers DEF IInv
<1>9. Held(t)'
  <2>1. /\ tx'[t].pc = "locked" /\ tx'[t].user = o.user /\ tx'[t].report = o.report
        /\ tx'[t].outcome = o.outcome /\ tx'[t].hide = o.hide /\ tx'[t].by = o.by /\ tx'[t].seen = user'[o.user]
        /\ tx'[t].wanted = Wanted(tx'[t].seen, tx'[t].action)
    BY <1>1, <1>8
  <2>2. o.user \in Registered'
    BY <1>1, <1>3 DEF Registered
  <2>3. /\ o.report # None => report'[o.report] # NoReport' /\ o.outcome # "none"
        /\ o.report = None => ~o.hide
    BY <1>1, <1>2 DEF Held, Staff, NoReport
  <2>4. tx'[t].by = "moderator" => tx'[t].seen.role = "user"
    BY <1>1, <2>1
  <2>5. (tx[t].wanted = Wanted(tx[t].seen, tx[t].action))'
    BY <2>1 DEF Wanted, Moderated, Standing
  <2> QED  BY <2>1, <2>2, <2>3, <2>4, <2>5 DEF Held, HoldsTokens, AddressRequests, Staff
<1>10. Calm(t)'
  BY <1>8 DEF Calm, Own
<1> QED  BY <1>1, <1>7, <1>9, <1>10, OnlyTx

LEMMA BeginReport ==
  ASSUME IInv, NEW t \in Txs, NEW u \in Users, create_report(t, u)
  PROVE IInv'
<1> DEFINE r == [pc |-> "report", user |-> u]
<1>1. r \in OpenTx /\ Goto(t, r) /\ UNCHANGED <<content, user, token, report, acts, overlapped>>
  BY DEF OpenTx, create_report, Begin
<1>2. tx'[t] = r
  BY <1>1, GotoOthers DEF IInv
<1>3. Held(t)' /\ Calm(t)'
  BY <1>2 DEF Held, Calm, HoldsTokens, AddressRequests, Staff, Own
<1> QED  BY <1>1, <1>3, OnlyTx

\* A request that is over has nothing.
LEMMA OverHolds ==
  ASSUME NEW t \in Txs, tx'[t] = Idle
  PROVE Held(t)' /\ Calm(t)' /\ HoldsTokens(t)' = {} /\ ~HoldsAccount(t)'
BY IdleFields DEF Held, Calm, HoldsTokens, HoldsAccount, AddressRequests, Staff, Own

LEMMA StepRollback ==
  ASSUME IInv, NEW t \in Txs, Rollback(t)
  PROVE IInv'
<1>1. Goto(t, Idle) /\ UNCHANGED <<content, user, token, report, acts, overlapped>>
  BY DEF Rollback
<1>2. tx'[t] = Idle
  BY <1>1, GotoOthers DEF IInv
<1> QED  BY <1>1, <1>2, OverHolds, IdleFields, OnlyTx


-----------------------------------------------------------------------------
(* Commits. *)

\* A commit leaves the request idle: it remains to be shown that the tables are
\* right and that the others have what they had.
LEMMA Commit ==
  ASSUME IInv, NEW t \in Txs, Goto(t, Idle), Tables',
         \A s \in Txs \ {t} : Held(s)' /\ Calm(s)'
  PROVE IInv'
<1>1. TxType' /\ tx'[t] = Idle /\ \A s \in Txs \ {t} : tx'[s] = tx[s]
  BY GotoOthers DEF IInv
<1>2. \A s \in Txs : Held(s)' /\ Calm(s)'
  BY <1>1, OverHolds
<1>3. HoldsTokens(t)' = {} /\ ~HoldsAccount(t)'
  BY <1>1, OverHolds
<1>4. \A s \in Txs \ {t} : HoldsTokens(s)' = HoldsTokens(s) /\ (HoldsAccount(s)' <=> HoldsAccount(s))
  BY <1>1 DEF HoldsTokens, HoldsAccount
<1>5. Locks'
  <2> SUFFICES ASSUME NEW s \in Txs, NEW q \in Txs, s # q
               PROVE /\ ~(HoldsAccount(s)' /\ HoldsAccount(q)' /\ tx'[s].user = tx'[q].user)
                     /\ HoldsTokens(s)' \cap HoldsTokens(q)' = {}
    BY DEF Locks
  <2>1. CASE s # t /\ q # t
    BY <2>1, <1>1, <1>4 DEF IInv, Locks
  <2>2. CASE s = t \/ q = t
    BY <2>2, <1>3
  <2> QED  BY <2>1, <2>2
<1> QED  BY <1>1, <1>2, <1>5 DEF IInv

\* A commit about tokens or reports leaves all accounts as they are.
LEMMA OthersKeep ==
  ASSUME IInv, NEW t \in Txs, Goto(t, Idle), user' = user, overlapped \subseteq overlapped',
         \A s \in Txs \ {t} : \A k \in HoldsTokens(s) : token'[k] = token[k],
         \A r \in Reports : report[r] # NoReport => report'[r] # NoReport
  PROVE Registered' = Registered /\ \A s \in Txs \ {t} : Held(s)' /\ Calm(s)'
<1>1. \A s \in Txs \ {t} : tx'[s] = tx[s]
  BY GotoOthers DEF IInv
<1>2. Registered' = Registered
  BY DEF Registered
<1> QED  BY <1>1, <1>2, HeldStays, CalmStays

\* One that writes a row which nobody else holds leaves what others have loaded
\* of it, or counts them as overlapped.
LEMMA OthersKeepRow ==
  ASSUME IInv, NEW t \in Txs, Goto(t, Idle), NEW u \in Registered, NEW row \in Account,
         user' = [user EXCEPT ![u] = row], AccountFree(t, u), CountOverlaps(t, u),
         \A s \in Txs \ {t} : \A k \in HoldsTokens(s) : token'[k] = token[k],
         \A r \in Reports : report[r] # NoReport => report'[r] # NoReport
  PROVE /\ Registered' = Registered /\ user'[u] = row /\ \A v \in Users \ {u} : user'[v] = user[v]
        /\ overlapped \subseteq overlapped' /\ overlapped' \subseteq overlapped \cup {u}
        /\ user' \in [Users -> Account \cup {NoUser}]
        /\ \A s \in Txs \ {t} : Held(s)' /\ Calm(s)'
<1>1. /\ user \in [Users -> Account \cup {NoUser}]
      /\ u \in Users
  BY DEF IInv, Tables, TablesOK, TypeOK, Registered
<1>2. row # NoUser
  BY DEF Account, NoUser, Statuses
<1>3. /\ user'[u] = row /\ \A v \in Users \ {u} : user'[v] = user[v]
      /\ user' \in [Users -> Account \cup {NoUser}]
  BY <1>1
<1>4. Registered' = Registered
  BY <1>1, <1>2, <1>3 DEF Registered, NoUser
<1>5. overlapped \subseteq overlapped' /\ overlapped' \subseteq overlapped \cup {u}
  BY DEF CountOverlaps
<1>6. ASSUME NEW s \in Txs \ {t} PROVE Held(s)' /\ Calm(s)'
  <2>1. tx'[s] = tx[s]
    BY GotoOthers DEF IInv
  <2>2. tx[s].pc = "locked" => tx[s].user # u /\ tx[s].user \in Users
    BY TxFields DEF AccountFree, HoldsAccount, IInv, Staff
  <2>3. Held(s)'
    BY <1>3, <1>4, <2>1, <2>2, HeldStays
  <2>4. Held(s)
    BY DEF IInv
  <2>5. tx[s].pc \in AddressRequests => tx[s].user \in Users
    BY <2>4 DEF Held, Registered
  <2>6. tx[s].pc \in AddressRequests /\ tx[s].user = u => u \in overlapped'
    BY DEF CountOverlaps
  <2>7. tx[s].pc \in AddressRequests /\ tx[s].user \notin overlapped' =>
           /\ user'[tx[s].user].address = user[tx[s].user].address
           /\ user'[tx[s].user].verified = user[tx[s].user].verified
    BY <1>3, <2>5, <2>6
  <2> QED  BY <1>5, <2>1, <2>3, <2>7, CalmStays
<1> QED  BY <1>3, <1>4, <1>5, <1>6


LEMMA StepRegister ==
  ASSUME IInv, NEW t \in Txs, NEW k \in Tokens, CommitRegister(t, k)
  PROVE IInv'
<1> PICK u \in Users, address \in Addresses : u = tx[t].user /\ address = tx[t].address
  BY TxFields DEF CommitRegister, IInv
<1> DEFINE row == NewAccount("user", address)
           new == [user |-> u, address |-> address, status |-> "live"]
<1>1. /\ user[u] = NoUser /\ Unused(k, token) /\ Goto(t, Idle)
      /\ user' = [user EXCEPT ![u] = row] /\ token' = [token EXCEPT ![k] = new]
      /\ UNCHANGED <<content, report, made, acts, overlapped>>
  BY DEF CommitRegister
<1>2. TypeOK /\ IdsInOrder
  BY DEF IInv, Tables, TablesOK
<1>3. row \in Account /\ new \in Token /\ row # NoUser /\ new # NoToken
  BY DEF NewAccount, Account, Token, Statuses, Roles, NoUser, NoToken
<1>4. /\ user'[u] = row /\ \A v \in Users \ {u} : user'[v] = user[v]
      /\ token'[k] = new /\ \A j \in Tokens \ {k} : token'[j] = token[j]
      /\ user' \in [Users -> Account \cup {NoUser}] /\ token' \in [Tokens -> Token \cup {NoToken}]
  BY <1>1, <1>2, <1>3 DEF TypeOK
<1> HIDE DEF new
<1>5. token[k] = NoToken /\ \E n \in Nat : {j \in Tokens : token'[j] # NoToken} = 1..n
  <2>1. token[k] = NoToken /\ \E n \in Nat : {j \in Tokens : token[j] # NoToken \/ j = k} = 1..n
    BY <1>1, <1>2, UnusedToken
  <2>2. {j \in Tokens : token'[j] # NoToken} = {j \in Tokens : token[j] # NoToken \/ j = k}
    BY <1>3, <1>4
  <2> QED  BY <2>1, <2>2
<1>6. Registered' = Registered \cup {u} /\ u \notin Registered
  BY <1>1, <1>3, <1>4 DEF Registered, NoUser
<1>7. ASSUME NEW s \in Txs \ {t} PROVE Held(s)' /\ Calm(s)'
  <2>1. tx'[s] = tx[s] /\ Held(s)
    BY <1>1, GotoOthers DEF IInv
  <2>2. k \notin HoldsTokens(s) /\ HoldsTokens(s) \subseteq Tokens
    BY <1>5, <2>1, TxFields DEF Held, HoldsTokens, IInv
  <2>3. tx[s].pc \in AddressRequests \cup Staff => tx[s].user \in Users \ {u}
    BY <2>1, <1>6 DEF Held, Registered
  <2>4. tx[s].pc \in AddressRequests \cup Staff => user'[tx[s].user] = user[tx[s].user]
    BY <2>3, <1>4
  <2>5. Held(s)'
    BY <1>1, <1>4, <1>6, <2>1, <2>2, <2>4, HeldStays DEF Staff
  <2>6. Calm(s)'
    BY <1>1, <2>1, <2>4, CalmStays
  <2> QED  BY <2>5, <2>6
<1>8. Tables'
  <2>1. TablesOK'
    BY <1>1, <1>4, <1>6 DEF IInv, Tables, TablesOK, TypeOK, content, scene
  <2>2. IdsInOrder'
    BY <1>1, <1>5 DEF IdsInOrder, IInv, Tables, NoToken, NoReport
  <2>3. ASSUME NEW j \in Tokens, token'[j] # NoToken PROVE token'[j].user \in Registered'
    BY <1>4, <1>6, <2>3 DEF IInv, Tables, TokensOfAccounts, new
  <2>4. TokensOfAccounts'
    BY <2>3 DEF TokensOfAccounts, NoToken
  <2>5. ActsOnNobody'
    BY <1>1, <1>6 DEF IInv, Tables, ActsOnNobody, NewAccount, Standing, NoReport
  <2>6. \A v \in Registered : Standing(user'[v]) = acts[v]
    BY <1>4, <1>6 DEF IInv, Tables, ActsAddUp, Standing, Registered
  <2>7. Standing(user'[u]) = acts[u]
    BY <1>4, <1>6 DEF IInv, Tables, ActsOnNobody, Standing, NewAccount
  <2>8. ActsAddUp'
    BY <1>1, <1>6, <2>6, <2>7 DEF IInv, Tables, ActsAddUp, Standing, content, scene, NoReport
  <2>9. OneOpen'
    BY <1>1 DEF IInv, Tables, OneOpen, content, scene
  <2>10. ASSUME NEW j \in Tokens, token'[j] # NoToken, token'[j].status = "live", token'[j].user \notin overlapped
         PROVE user'[token'[j].user].address \in {token'[j].address, None}
    <3>1. CASE j = k
      BY <3>1, <1>4 DEF new, NewAccount
    <3>2. CASE j # k
      <4>1. token'[j] = token[j] /\ token[j].user \in Registered
        BY <3>2, <1>4, <2>10 DEF IInv, Tables, TokensOfAccounts
      <4>2. user'[token[j].user] = user[token[j].user]
        BY <4>1, <1>4, <1>6 DEF Registered
      <4> QED  BY <4>1, <4>2, <2>10 DEF IInv, Tables, LinksMatch
    <3> QED  BY <3>1, <3>2
  <2>11. LinksMatch'
    BY <2>10, <1>1 DEF LinksMatch, NoToken
  <2>12. ASSUME NEW v \in Registered' \ overlapped, user'[v].verified, user'[v].address # None
         PROVE \E j \in Tokens : token'[j] = [user |-> v, address |-> user'[v].address, status |-> "used"]
    <3>1. v # u
      BY <2>12, <1>4 DEF NewAccount
    <3>2. v \in Registered \ overlapped /\ user'[v] = user[v]
      BY <3>1, <1>4, <1>6, <2>12 DEF Registered
    <3>3. PICK j \in Tokens : token[j] = [user |-> v, address |-> user[v].address, status |-> "used"]
      BY <3>2, <2>12 DEF IInv, Tables, VerifiedIsProved
    <3>4. token'[j] = token[j]
      BY <3>3, <1>4, <1>5 DEF NoToken
    <3> QED  BY <3>2, <3>3, <3>4
  <2>13. VerifiedIsProved'
    BY <2>12, <1>1 DEF VerifiedIsProved
  <2> QED  BY <2>1, <2>2, <2>4, <2>5, <2>8, <2>9, <2>11, <2>13 DEF Tables
<1> QED  BY <1>1, <1>7, <1>8, Commit


LEMMA StepResend ==
  ASSUME IInv, NEW t \in Txs, NEW k \in Tokens, CommitResend(t, k)
  PROVE IInv'
<1> PICK u \in Users, address \in Addresses \cup {None}, S \in SUBSET Tokens :
      u = tx[t].user /\ address = tx[t].address /\ S = tx[t].tokens
  BY TxFields DEF CommitResend, IInv
<1> DEFINE new == [user |-> u, address |-> address, status |-> "live"]
<1>1. /\ tx[t].pc = "resend" /\ Unused(k, token) /\ Goto(t, Idle) /\ CountOverlaps(t, u)
      /\ token' = [Void(S) EXCEPT ![k] = new]
      /\ UNCHANGED <<content, user, report, made, acts>>
  BY DEF CommitResend
<1>2. TypeOK /\ IdsInOrder /\ Held(t) /\ Calm(t)
  BY DEF IInv, Tables, TablesOK
<1>3. new \in Token /\ new # NoToken
  BY DEF Token, NoToken
<1>4. token[k] = NoToken /\ \E n \in Nat : {j \in Tokens : token[j] # NoToken \/ j = k} = 1..n
  BY <1>1, <1>2, UnusedToken
<1>5. S = HoldsTokens(t) /\ u \in Registered
  BY <1>1, <1>2 DEF HoldsTokens, Held, AddressRequests
<1>6. \A j \in S : token[j] \in Token /\ token[j].status = "live" /\ token[j].user = u /\ j # k
  BY <1>1, <1>2, <1>4, <1>5, RowFields DEF Held
<1>7. /\ token'[k] = new
      /\ \A j \in Tokens \ (S \cup {k}) : token'[j] = token[j]
      /\ \A j \in S : token'[j] = [token[j] EXCEPT !.status = "void"]
  BY <1>1, <1>6 DEF Void
<1>8. \A j \in S : token'[j] \in Token /\ token'[j].status = "void" /\ token'[j].user = u
  <2> SUFFICES ASSUME NEW j \in S
               PROVE token'[j] \in Token /\ token'[j].status = "void" /\ token'[j].user = u
    OBVIOUS
  <2>1. token[j] \in Token /\ token[j].user = u /\ token'[j] = [token[j] EXCEPT !.status = "void"]
    BY <1>6, <1>7
  <2> QED  BY <2>1 DEF Token
<1>9. token' \in [Tokens -> Token \cup {NoToken}]
  <2>1. DOMAIN token' = Tokens /\ token' = [j \in Tokens |-> token'[j]]
    BY <1>1 DEF Void
  <2>2. \A j \in Tokens : token'[j] \in Token \cup {NoToken}
    BY <1>2, <1>3, <1>7, <1>8 DEF TypeOK
  <2> QED  BY <2>1, <2>2
<1> HIDE DEF new
<1>10. {j \in Tokens : token'[j] # NoToken} = {j \in Tokens : token[j] # NoToken \/ j = k}
  BY <1>3, <1>6, <1>7, <1>8 DEF Token, NoToken
<1>11. overlapped \subseteq overlapped' /\ overlapped' \subseteq Users
  BY <1>1, <1>2 DEF CountOverlaps, TypeOK
<1>12. Registered' = Registered /\ \A s \in Txs \ {t} : Held(s)' /\ Calm(s)'
  <2>1. \A s \in Txs \ {t} : HoldsTokens(s) \subseteq Tokens \ (S \cup {k})
    <3> SUFFICES ASSUME NEW s \in Txs \ {t} PROVE HoldsTokens(s) \subseteq Tokens \ (S \cup {k})
      OBVIOUS
    <3>1. HoldsTokens(s) \subseteq Tokens
      BY TxFields DEF HoldsTokens, IInv
    <3>2. k \notin HoldsTokens(s)
      BY <1>4 DEF Held, IInv
    <3>3. HoldsTokens(s) \cap S = {}
      BY <1>5 DEF Locks, IInv
    <3> QED  BY <3>1, <3>2, <3>3
  <2>2. \A s \in Txs \ {t} : \A j \in HoldsTokens(s) : token'[j] = token[j]
    BY <2>1, <1>7
  <2> QED  BY <2>2, <1>1, <1>11, OthersKeep
<1>13. Tables'
  <2>1. TablesOK'
    BY <1>1, <1>9, <1>11, <1>12 DEF IInv, Tables, TablesOK, TypeOK, content, scene
  <2>2. IdsInOrder'
    BY <1>1, <1>4, <1>10 DEF IdsInOrder, IInv, Tables, NoToken, NoReport
  <2>3. ASSUME NEW j \in Tokens, token'[j] # NoToken PROVE token'[j].user \in Registered
    BY <1>5, <1>7, <1>8, <2>3 DEF IInv, Tables, TokensOfAccounts, new
  <2>4. TokensOfAccounts'
    BY <2>3, <1>12 DEF TokensOfAccounts, NoToken
  <2>5. ActsOnNobody'
    BY <1>1, <1>12 DEF IInv, Tables, ActsOnNobody, NewAccount, Standing, NoReport
  <2>6. ActsAddUp'
    BY <1>1, <1>12 DEF IInv, Tables, ActsAddUp, Standing, content, scene, NoReport
  <2>7. OneOpen'
    BY <1>1 DEF IInv, Tables, OneOpen, content, scene
  <2>8. ASSUME NEW j \in Tokens, token'[j] # NoToken, token'[j].status = "live", token'[j].user \notin overlapped'
         PROVE user[token'[j].user].address \in {token'[j].address, None}
    <3>1. CASE j = k
      BY <3>1, <1>1, <1>2, <1>7, <1>11, <2>8 DEF new, Calm
    <3>2. CASE j # k
      <4>1. token'[j] = token[j]
        BY <3>2, <1>7, <1>8, <2>8
      <4> QED  BY <4>1, <1>11, <2>8 DEF IInv, Tables, LinksMatch
    <3> QED  BY <3>1, <3>2
  <2>9. LinksMatch'
    BY <2>8, <1>1 DEF LinksMatch, NoToken
  <2>10. ASSUME NEW v \in Registered \ overlapped', user[v].verified, user[v].address # None
         PROVE \E j \in Tokens : token'[j] = [user |-> v, address |-> user[v].address, status |-> "used"]
    <3>1. PICK j \in Tokens : token[j] = [user |-> v, address |-> user[v].address, status |-> "used"]
      BY <1>11, <2>10 DEF IInv, Tables, VerifiedIsProved
    <3>2. token'[j] = token[j]
      BY <3>1, <1>4, <1>6, <1>7 DEF NoToken
    <3> QED  BY <3>1, <3>2
  <2>11. VerifiedIsProved'
    BY <2>10, <1>1, <1>12 DEF VerifiedIsProved
  <2> QED  BY <2>1, <2>2, <2>4, <2>5, <2>6, <2>7, <2>9, <2>11 DEF Tables
<1> QED  BY <1>1, <1>12, <1>13, Commit


LEMMA StepVerify ==
  ASSUME IInv, NEW t \in Txs, CommitVerify(t)
  PROVE IInv'
<1>1. TypeOK /\ Held(t) /\ Calm(t) /\ tx[t].pc = "verify" /\ Goto(t, Idle)
  BY DEF CommitVerify, IInv, Tables, TablesOK
<1> PICK u \in Users, seen \in Account : u = tx[t].user /\ seen = tx[t].seen
  BY <1>1, TxFields DEF IInv, Own
<1> PICK wanted \in Account : wanted = tx[t].wanted
  BY <1>1, TxFields DEF IInv, Own
<1>2. wanted = [seen EXCEPT !.verified = TRUE]
  BY <1>1 DEF Held
<1> PICK k \in Tokens : tx[t].tokens = {k} /\ token[k].user = u
  BY <1>1 DEF Held
<1>3. u \in Registered /\ user[u] \in Account
  BY <1>1, RowFields DEF Held, AddressRequests
<1>4. k \in HoldsTokens(t)
  BY <1>1 DEF HoldsTokens
<1>5. token[k] \in Token /\ token[k].status = "live"
  BY <1>1, <1>4, RowFields DEF Held
<1> DEFINE row == Flush(user[u], seen, wanted)
<1>6. row \in Account /\ Standing(row) = Standing(user[u]) /\ row.address = user[u].address
  <2>1. /\ wanted.status = seen.status /\ wanted.role = seen.role /\ wanted.muted = seen.muted
        /\ wanted.address = seen.address
    BY <1>2 DEF Account
  <2>2. /\ row \in Account
        /\ row.status = IF wanted.status = seen.status THEN user[u].status ELSE wanted.status
        /\ row.role = IF wanted.role = seen.role THEN user[u].role ELSE wanted.role
        /\ row.muted = IF wanted.muted = seen.muted THEN user[u].muted ELSE wanted.muted
        /\ row.address = IF wanted.address = seen.address THEN user[u].address ELSE wanted.address
    BY <1>3, FlushFields
  <2> HIDE DEF row
  <2>3. row.status = user[u].status /\ row.role = user[u].role /\ row.muted = user[u].muted
        /\ row.address = user[u].address
    BY <2>1, <2>2
  <2> QED  BY <2>2, <2>3 DEF Standing
<1>7. /\ user' = [user EXCEPT ![u] = row] /\ CountOverlaps(t, u) /\ AccountFree(t, u)
      /\ token' = [j \in Tokens |-> IF j = k THEN [token[j] EXCEPT !.status = "used"] ELSE token[j]]
      /\ UNCHANGED <<content, report, made, acts>>
  BY DEF CommitVerify
<1> HIDE DEF row
<1>8. /\ \A j \in Tokens \ {k} : token'[j] = token[j]
      /\ token'[k] = [user |-> u, address |-> token[k].address, status |-> "used"]
      /\ token' \in [Tokens -> Token \cup {NoToken}]
  <2>1. /\ \A j \in Tokens \ {k} : token'[j] = token[j]
        /\ token'[k] = [token[k] EXCEPT !.status = "used"]
    BY <1>7
  <2>2. /\ token'[k] = [user |-> u, address |-> token[k].address, status |-> "used"]
        /\ token'[k] \in Token
    BY <1>5, <2>1 DEF Token
  <2> QED  BY <1>1, <1>7, <2>1, <2>2 DEF TypeOK
<1>9. \A s \in Txs \ {t} : \A j \in HoldsTokens(s) : token'[j] = token[j]
  <2>1. \A s \in Txs \ {t} : HoldsTokens(s) \subseteq Tokens \ {k}
    BY <1>4, TxFields DEF Locks, IInv, HoldsTokens
  <2> QED  BY <2>1, <1>8
<1>10. /\ Registered' = Registered /\ user'[u] = row /\ \A v \in Users \ {u} : user'[v] = user[v]
       /\ overlapped \subseteq overlapped' /\ overlapped' \subseteq overlapped \cup {u}
       /\ user' \in [Users -> Account \cup {NoUser}]
       /\ \A s \in Txs \ {t} : Held(s)' /\ Calm(s)'
  BY <1>1, <1>3, <1>6, <1>7, <1>9, OthersKeepRow DEF NoReport
<1>11. \A v \in Users : user'[v].address = user[v].address /\ Standing(user'[v]) = Standing(user[v])
  BY <1>6, <1>10
<1>12. \A j \in Tokens : (token'[j] # NoToken) <=> (token[j] # NoToken)
  BY <1>5, <1>8 DEF NoToken, Token
<1>13. \A j \in Tokens : token[j] # NoToken => token'[j].user = token[j].user
  BY <1>5, <1>8
<1>14. Tables'
  <2>1. TablesOK'
    BY <1>1, <1>3, <1>7, <1>8, <1>10 DEF IInv, Tables, TablesOK, TypeOK, content, scene
  <2>2. IdsInOrder'
    <3>1. {j \in Tokens : token'[j] # NoToken} = {j \in Tokens : token[j] # NoToken}
      BY <1>12
    <3> QED  BY <3>1, <1>7 DEF IdsInOrder, IInv, Tables, NoToken, NoReport
  <2>3. \A j \in Tokens : token'[j] # NoToken => token'[j].user \in Registered
    BY <1>12, <1>13 DEF IInv, Tables, TokensOfAccounts
  <2>4. TokensOfAccounts'
    BY <2>3, <1>10 DEF TokensOfAccounts, NoToken
  <2>5. ActsOnNobody'
    BY <1>7, <1>10 DEF IInv, Tables, ActsOnNobody, NewAccount, Standing, NoReport
  <2>6. \A v \in Registered : Standing(user'[v]) = acts[v]
    BY <1>11 DEF IInv, Tables, ActsAddUp, Registered
  <2>7. ActsAddUp'
    BY <1>7, <1>10, <2>6 DEF IInv, Tables, ActsAddUp, Standing, content, scene, NoReport
  <2>8. OneOpen'
    BY <1>7 DEF IInv, Tables, OneOpen, content, scene
  <2>9. ASSUME NEW j \in Tokens, token'[j] # NoToken, token'[j].status = "live", token'[j].user \notin overlapped'
        PROVE user'[token'[j].user].address \in {token'[j].address, None}
    <3>1. token'[j] = token[j]
      BY <1>8, <2>9
    <3>2. token[j].user \in Registered
      BY <3>1, <2>9 DEF IInv, Tables, TokensOfAccounts
    <3>3. token[j].user \in Users
      BY <3>2 DEF Registered
    <3>4. user[token[j].user].address \in {token[j].address, None}
      BY <3>1, <1>10, <2>9 DEF IInv, Tables, LinksMatch
    <3> QED  BY <3>1, <3>3, <3>4, <1>11
  <2>10. LinksMatch'
    BY <2>9 DEF LinksMatch, NoToken
  <2>11. ASSUME NEW v \in Registered \ overlapped', user'[v].verified, user'[v].address # None
         PROVE \E j \in Tokens : token'[j] = [user |-> v, address |-> user'[v].address, status |-> "used"]
    <3>1. CASE v = u
      <4>1. user[u].address = token[k].address
        BY <3>1, <1>5, <1>6, <1>10, <2>11 DEF IInv, Tables, LinksMatch, NoToken
      <4> QED  BY <3>1, <4>1, <1>6, <1>8, <1>10
    <3>2. CASE v # u
      <4>1. user'[v] = user[v]
        BY <3>2, <1>10 DEF Registered
      <4>2. PICK j \in Tokens : token[j] = [user |-> v, address |-> user[v].address, status |-> "used"]
        BY <4>1, <1>10, <2>11 DEF IInv, Tables, VerifiedIsProved
      <4>3. token'[j] = token[j]
        BY <4>2, <1>5, <1>8
      <4> QED  BY <4>1, <4>2, <4>3
    <3> QED  BY <3>1, <3>2
  <2>12. VerifiedIsProved'
    BY <2>11, <1>10 DEF VerifiedIsProved
  <2> QED  BY <2>1, <2>2, <2>4, <2>5, <2>7, <2>8, <2>10, <2>12 DEF Tables
<1> QED  BY <1>1, <1>10, <1>14, Commit


LEMMA StepUpdate ==
  ASSUME IInv, NEW t \in Txs, CommitUpdate(t)
  PROVE IInv'
<1>1. TypeOK /\ Held(t) /\ Calm(t) /\ tx[t].pc = "updated" /\ Goto(t, Idle)
  BY DEF CommitUpdate, IInv, Tables, TablesOK
<1> PICK u \in Users, seen \in Account, wanted \in Account :
      u = tx[t].user /\ seen = tx[t].seen /\ wanted = tx[t].wanted
  BY <1>1, TxFields DEF IInv, Own
<1>a. PICK a \in Addresses : wanted = [seen EXCEPT !.address = a, !.verified = FALSE]
  BY <1>1 DEF Held
<1>2. u \in Registered /\ user[u] \in Account
  BY <1>1, RowFields DEF Held, AddressRequests
<1> DEFINE row == Flush(user[u], seen, wanted)
           S == LiveTokens(u)
<1>3. row \in Account /\ Standing(row) = Standing(user[u]) /\ (u \notin overlapped => ~row.verified)
  <2>1. /\ wanted.status = seen.status /\ wanted.role = seen.role /\ wanted.muted = seen.muted
        /\ wanted.verified = FALSE
    BY <1>a DEF Account
  <2>2. /\ row \in Account
        /\ row.status = IF wanted.status = seen.status THEN user[u].status ELSE wanted.status
        /\ row.role = IF wanted.role = seen.role THEN user[u].role ELSE wanted.role
        /\ row.muted = IF wanted.muted = seen.muted THEN user[u].muted ELSE wanted.muted
        /\ row.verified = IF wanted.verified = seen.verified THEN user[u].verified ELSE wanted.verified
    BY <1>2, FlushFields
  <2> HIDE DEF row
  <2>3. row.status = user[u].status /\ row.role = user[u].role /\ row.muted = user[u].muted
    BY <2>1, <2>2
  <2>4. u \notin overlapped => seen.verified = user[u].verified
    BY <1>1 DEF Calm, Own
  <2>5. u \notin overlapped => ~row.verified
    BY <2>1, <2>2, <2>4
  <2> QED  BY <2>2, <2>3, <2>5 DEF Standing
<1>4. /\ user' = [user EXCEPT ![u] = row] /\ CountOverlaps(t, u) /\ TokensFree(t, S)
      /\ token' = Void(S)
      /\ UNCHANGED <<content, report, made, acts>>
  BY DEF CommitUpdate
<1>5. AccountFree(t, u)
  BY <1>1 DEF AccountFree, HoldsAccount, IInv, Locks
<1>6. \A j \in Tokens : j \in S <=> token[j] # NoToken /\ token[j].user = u /\ token[j].status = "live"
  BY DEF LiveTokens
<1>7. S \subseteq Tokens
  BY DEF LiveTokens
<1> HIDE DEF row, S
<1>8. /\ \A j \in Tokens \ S : token'[j] = token[j]
      /\ \A j \in S : token'[j] # NoToken /\ token'[j].user = u /\ token'[j].status = "void"
      /\ token' \in [Tokens -> Token \cup {NoToken}]
  <2>1. /\ \A j \in Tokens \ S : token'[j] = token[j]
        /\ \A j \in S : token'[j] = [token[j] EXCEPT !.status = "void"]
    BY <1>4, <1>7 DEF Void
  <2>2. ASSUME NEW j \in S
        PROVE /\ token'[j] # NoToken /\ token'[j].user = u /\ token'[j].status = "void"
              /\ token'[j] \in Token
    <3>1. token[j] \in Token /\ token[j].user = u /\ token'[j] = [token[j] EXCEPT !.status = "void"]
      BY <1>1, <1>6, <1>7, <2>1, RowFields
    <3> QED  BY <3>1 DEF Token, NoToken
  <2> QED  BY <1>1, <1>4, <1>7, <2>1, <2>2 DEF TypeOK, Void
<1>9. \A s \in Txs \ {t} : \A j \in HoldsTokens(s) : token'[j] = token[j]
  <2>1. \A s \in Txs \ {t} : HoldsTokens(s) \subseteq Tokens \ S
    BY <1>4, TxFields DEF TokensFree, IInv, HoldsTokens
  <2> QED  BY <2>1, <1>8
<1>10. /\ Registered' = Registered /\ user'[u] = row /\ \A v \in Users \ {u} : user'[v] = user[v]
       /\ overlapped \subseteq overlapped' /\ overlapped' \subseteq overlapped \cup {u}
       /\ user' \in [Users -> Account \cup {NoUser}]
       /\ \A s \in Txs \ {t} : Held(s)' /\ Calm(s)'
  BY <1>1, <1>2, <1>3, <1>4, <1>5, <1>9, OthersKeepRow DEF NoReport
<1>11. \A j \in Tokens : (token'[j] # NoToken) <=> (token[j] # NoToken)
  BY <1>6, <1>8 DEF NoToken
<1>12. \A j \in Tokens : token[j] # NoToken => token'[j].user = token[j].user
  BY <1>6, <1>8
<1>13. Tables'
  <2>1. TablesOK'
    BY <1>1, <1>2, <1>4, <1>8, <1>10 DEF IInv, Tables, TablesOK, TypeOK, content, scene
  <2>2. IdsInOrder'
    <3>1. {j \in Tokens : token'[j] # NoToken} = {j \in Tokens : token[j] # NoToken}
      BY <1>11
    <3> QED  BY <3>1, <1>4 DEF IdsInOrder, IInv, Tables, NoToken, NoReport
  <2>3. \A j \in Tokens : token'[j] # NoToken => token'[j].user \in Registered
    BY <1>11, <1>12 DEF IInv, Tables, TokensOfAccounts
  <2>4. TokensOfAccounts'
    BY <2>3, <1>10 DEF TokensOfAccounts, NoToken
  <2>5. ActsOnNobody'
    BY <1>4, <1>10 DEF IInv, Tables, ActsOnNobody, NewAccount, Standing, NoReport
  <2>6. \A v \in Registered : Standing(user'[v]) = acts[v]
    BY <1>3, <1>10 DEF IInv, Tables, ActsAddUp, Registered
  <2>7. ActsAddUp'
    BY <1>4, <1>10, <2>6 DEF IInv, Tables, ActsAddUp, Standing, content, scene, NoReport
  <2>8. OneOpen'
    BY <1>4 DEF IInv, Tables, OneOpen, content, scene
  <2>9. ASSUME NEW j \in Tokens, token'[j] # NoToken, token'[j].status = "live", token'[j].user \notin overlapped'
        PROVE user'[token'[j].user].address \in {token'[j].address, None}
    <3>1. token'[j] = token[j] /\ j \notin S
      BY <1>8, <2>9
    <3>2. token[j].user \in Registered \ {u}
      BY <1>6, <3>1, <2>9 DEF IInv, Tables, TokensOfAccounts
    <3>3. user'[token[j].user] = user[token[j].user]
      BY <3>2, <1>10 DEF Registered
    <3> QED  BY <3>1, <3>3, <1>10, <2>9 DEF IInv, Tables, LinksMatch
  <2>10. LinksMatch'
    BY <2>9 DEF LinksMatch, NoToken
  <2>11. ASSUME NEW v \in Registered \ overlapped', user'[v].verified, user'[v].address # None
         PROVE \E j \in Tokens : token'[j] = [user |-> v, address |-> user'[v].address, status |-> "used"]
    <3>1. v # u
      BY <1>3, <1>10, <2>11
    <3>2. user'[v] = user[v]
      BY <3>1, <1>10 DEF Registered
    <3>3. PICK j \in Tokens : token[j] = [user |-> v, address |-> user[v].address, status |-> "used"]
      BY <3>2, <1>10, <2>11 DEF IInv, Tables, VerifiedIsProved
    <3>4. token'[j] = token[j]
      BY <3>3, <1>6, <1>8
    <3> QED  BY <3>2, <3>3, <3>4
  <2>12. VerifiedIsProved'
    BY <2>11, <1>10 DEF VerifiedIsProved
  <2> QED  BY <2>1, <2>2, <2>4, <2>5, <2>7, <2>8, <2>10, <2>12 DEF Tables
<1> QED  BY <1>1, <1>10, <1>13, Commit


\* A decision leaves the table of reports in order.
LEMMA DecideKeepsReports ==
  ASSUME IInv, NEW t \in Txs, tx[t].pc \in {"locked", "resolve"}, Decide(tx[t]), UNCHANGED scene
  PROVE /\ report' \in [Reports -> Report \cup {NoReport}]
        /\ hidden' \in BOOLEAN
        /\ \A r \in Reports : (report'[r] # NoReport) <=> (report[r] # NoReport)
        /\ OneOpen'
<1>1. TypeOK /\ Held(t) /\ OneOpen /\ tx[t].pc \in Staff
  BY DEF IInv, Tables, TablesOK, Staff
<1> PICK k \in Reports \cup {None}, outcome \in {"none", "resolved", "rejected"}, hide \in BOOLEAN :
      k = tx[t].report /\ outcome = tx[t].outcome /\ hide = tx[t].hide
  BY <1>1, TxFields DEF IInv
<1>2. indexed' = indexed /\ hidden' \in BOOLEAN
  BY <1>1 DEF scene, Decide, TypeOK
<1>3. CASE k = None
  <2>1. report' = report
    BY <1>3 DEF Decide
  <2>2. OneOpen'
    BY <1>1, <1>2, <2>1 DEF OneOpen
  <2> QED  BY <1>1, <1>2, <2>1, <2>2 DEF TypeOK
<1>4. CASE k # None
  <2>1. k \in Reports /\ report[k] # NoReport /\ outcome \in {"resolved", "rejected"}
    BY <1>1, <1>4 DEF Held
  <2>2. report[k] \in Report
    BY <1>1, <2>1, RowFields
  <2>3. report' = [report EXCEPT ![k].status = outcome]
    BY <1>4 DEF Decide
  <2>4. /\ \A r \in Reports \ {k} : report'[r] = report[r]
        /\ report'[k] = [report[k] EXCEPT !.status = outcome]
    BY <1>1, <2>1, <2>3 DEF TypeOK
  <2>5. report'[k] \in Report /\ report'[k].status = outcome /\ report'[k] # NoReport
    BY <2>1, <2>2, <2>4 DEF Report, NoReport
  <2>6. report' \in [Reports -> Report \cup {NoReport}]
    BY <1>1, <2>1, <2>3, <2>4, <2>5 DEF TypeOK
  <2>7. OneOpen'
    <3> SUFFICES ASSUME indexed, NEW r \in Reports, NEW q \in Reports,
                        report'[r].status = "open", report'[q].status = "open",
                        report'[r].reporter = report'[q].reporter
                 PROVE r = q
      BY <1>2 DEF OneOpen
    <3>1. r # k /\ q # k
      BY <2>1, <2>5
    <3>2. report'[r] = report[r] /\ report'[q] = report[q]
      BY <3>1, <2>4
    <3> QED  BY <3>2, <1>1 DEF OneOpen
  <2> QED  BY <1>2, <2>1, <2>4, <2>5, <2>6, <2>7
<1> QED  BY <1>3, <1>4

LEMMA StepModeration ==
  ASSUME IInv, NEW t \in Txs, CommitModeration(t)
  PROVE IInv'
<1>1. TypeOK /\ Held(t) /\ tx[t].pc = "locked" /\ Goto(t, Idle)
  BY DEF CommitModeration, IInv, Tables, TablesOK
<1> PICK u \in Users, action \in Actions : u = tx[t].user /\ action = tx[t].action
  BY <1>1, TxFields DEF IInv, Staff
<1>2. u \in Registered /\ user[u] \in Account
  BY <1>1, RowFields DEF Held, Staff
<1> DEFINE row == Wanted(user[u], action)
<1>3. /\ row \in Account /\ Standing(row) = Moderated(Standing(user[u]), action)
      /\ row.verified = user[u].verified /\ row.address \in {user[u].address, None}
  BY <1>2, WantedFields
<1>4. Flush(user[u], tx[t].seen, tx[t].wanted) = row
  BY <1>1, <1>2, <1>3, FlushLoaded DEF Held
<1>5. /\ user' = [user EXCEPT ![u] = row] /\ CountOverlaps(t, u) /\ Decide(tx[t])
      /\ acts' = [acts EXCEPT ![u] = Moderated(@, action)]
      /\ UNCHANGED <<scene, token, made>>
  BY <1>4 DEF CommitModeration
<1> HIDE DEF row
<1>6. AccountFree(t, u)
  BY <1>1 DEF AccountFree, HoldsAccount, IInv, Locks
<1>7. acts \in [Users -> Standings]
  BY DEF IInv, Tables, TablesOK
<1>8. acts[u] = Standing(user[u])
  BY <1>2 DEF IInv, Tables, ActsAddUp
<1> PICK standing \in Standings : standing = Moderated(acts[u], action)
  BY <1>7, ModeratedType
<1>9. acts' = [acts EXCEPT ![u] = standing]
  BY <1>5
<1>10. /\ report' \in [Reports -> Report \cup {NoReport}]
       /\ hidden' \in BOOLEAN
       /\ \A r \in Reports : (report'[r] # NoReport) <=> (report[r] # NoReport)
       /\ OneOpen'
  BY <1>1, <1>5, DecideKeepsReports
<1>11. /\ Registered' = Registered /\ user'[u] = row /\ \A v \in Users \ {u} : user'[v] = user[v]
       /\ overlapped \subseteq overlapped' /\ overlapped' \subseteq overlapped \cup {u}
       /\ user' \in [Users -> Account \cup {NoUser}]
       /\ \A s \in Txs \ {t} : Held(s)' /\ Calm(s)'
  BY <1>1, <1>2, <1>3, <1>5, <1>6, <1>10, OthersKeepRow
<1>12. acts' \in [Users -> Standings] /\ acts'[u] = standing
  BY <1>7, <1>9
<1>13. \A v \in Users \ {u} : acts'[v] = acts[v]
  BY <1>7, <1>9
<1>14. Tables'
  <2>1. TablesOK'
    BY <1>1, <1>2, <1>5, <1>10, <1>11, <1>12 DEF IInv, Tables, TablesOK, TypeOK, scene
  <2>2. IdsInOrder'
    <3>1. {r \in Reports : report'[r] # NoReport} = {r \in Reports : report[r] # NoReport}
      BY <1>10
    <3> QED  BY <3>1, <1>5 DEF IdsInOrder, IInv, Tables, NoToken, NoReport
  <2>3. TokensOfAccounts'
    BY <1>5, <1>11 DEF IInv, Tables, TokensOfAccounts, NoToken
  <2>4. \A v \in Users \ Registered : acts'[v] = Standing(NewAccount("user", None))
    BY <1>2, <1>13 DEF IInv, Tables, ActsOnNobody
  <2>5. ActsOnNobody'
    BY <1>11, <2>4 DEF ActsOnNobody, NewAccount, Standing
  <2>6. \A v \in Registered : Standing(user'[v]) = acts'[v]
    BY <1>3, <1>8, <1>11, <1>12, <1>13 DEF IInv, Tables, ActsAddUp, Registered
  <2>7. ActsAddUp'
    BY <1>11, <2>6 DEF ActsAddUp, Standing
  <2>8. ASSUME NEW j \in Tokens, token[j] # NoToken, token[j].status = "live", token[j].user \notin overlapped'
        PROVE user'[token[j].user].address \in {token[j].address, None}
    <3>1. token[j].user \in Users
      BY <2>8 DEF IInv, Tables, TokensOfAccounts, Registered
    <3>2. user[token[j].user].address \in {token[j].address, None}
      BY <1>11, <2>8 DEF IInv, Tables, LinksMatch
    <3> QED  BY <1>3, <1>11, <3>1, <3>2
  <2>9. LinksMatch'
    BY <1>5, <2>8 DEF LinksMatch, NoToken
  <2>10. ASSUME NEW v \in Registered \ overlapped', user'[v].verified, user'[v].address # None
         PROVE \E j \in Tokens : token[j] = [user |-> v, address |-> user'[v].address, status |-> "used"]
    <3>1. user[v].verified /\ user'[v].address = user[v].address
      BY <1>3, <1>11, <2>10 DEF Registered
    <3> QED  BY <1>11, <2>10, <3>1 DEF IInv, Tables, VerifiedIsProved
  <2>11. VerifiedIsProved'
    BY <1>5, <1>11, <2>10 DEF VerifiedIsProved
  <2> QED  BY <1>10, <2>1, <2>2, <2>3, <2>5, <2>7, <2>9, <2>11 DEF Tables
<1> QED  BY <1>1, <1>11, <1>14, Commit


LEMMA StepReport ==
  ASSUME IInv, NEW t \in Txs, NEW k \in Reports, CommitReport(t, k)
  PROVE IInv'
<1> PICK u \in Users : u = tx[t].user
  BY TxFields DEF CommitReport, IInv
<1> DEFINE new == [reporter |-> u, status |-> "open"]
<1>1. /\ Unused(k, report) /\ Goto(t, Idle)
      /\ indexed => OpenReports(u) = {}
      /\ report' = [report EXCEPT ![k] = new]
      /\ UNCHANGED <<content, user, token, made, acts, overlapped>>
  BY DEF CommitReport
<1>2. TypeOK /\ IdsInOrder
  BY DEF IInv, Tables, TablesOK
<1>3. new \in Report /\ new # NoReport /\ new.status = "open" /\ new.reporter = u
  BY DEF Report, NoReport
<1> HIDE DEF new
<1>4. report'[k] = new /\ \A r \in Reports \ {k} : report'[r] = report[r]
  BY <1>1, <1>2 DEF TypeOK
<1>5. report[k] = NoReport /\ \E n \in Nat : {r \in Reports : report[r] # NoReport \/ r = k} = 1..n
  BY <1>1, <1>2, UnusedReport
<1>6. {r \in Reports : report'[r] # NoReport} = {r \in Reports : report[r] # NoReport \/ r = k}
  BY <1>3, <1>4
<1>7. Registered' = Registered /\ \A s \in Txs \ {t} : Held(s)' /\ Calm(s)'
  BY <1>1, <1>3, <1>4, OthersKeep
<1>8. Tables'
  <2>1. TablesOK'
    BY <1>1, <1>3, <1>7 DEF IInv, Tables, TablesOK, TypeOK, content, scene
  <2>2. IdsInOrder'
    BY <1>1, <1>5, <1>6 DEF IdsInOrder, IInv, Tables, NoToken, NoReport
  <2>3. TokensOfAccounts' /\ LinksMatch' /\ VerifiedIsProved'
    BY <1>1, <1>7 DEF IInv, Tables, TokensOfAccounts, LinksMatch, VerifiedIsProved, NoToken
  <2>4. ActsOnNobody' /\ ActsAddUp'
    BY <1>1, <1>7 DEF IInv, Tables, ActsOnNobody, ActsAddUp, NewAccount, Standing
  <2>7. OneOpen'
    <3> SUFFICES ASSUME indexed, NEW r \in Reports, NEW q \in Reports,
                        report'[r].status = "open", report'[q].status = "open",
                        report'[r].reporter = report'[q].reporter
                 PROVE r = q
      BY <1>1 DEF OneOpen, content, scene
    <3>1. \A j \in Reports \ {k} : report'[j].status = "open" => report'[j].reporter # u
      BY <1>1, <1>4 DEF OpenReports
    <3>2. CASE r = k \/ q = k
      BY <3>1, <3>2, <1>3, <1>4
    <3>3. CASE r # k /\ q # k
      BY <3>3, <1>4 DEF OneOpen, IInv, Tables
    <3> QED  BY <3>2, <3>3
  <2> QED  BY <2>1, <2>2, <2>3, <2>4, <2>7 DEF Tables
<1> QED  BY <1>1, <1>7, <1>8, Commit

LEMMA StepResolve ==
  ASSUME IInv, NEW t \in Txs, CommitResolve(t)
  PROVE IInv'
<1>1. /\ TypeOK /\ tx[t].pc = "resolve" /\ Goto(t, Idle) /\ Decide(tx[t])
      /\ UNCHANGED <<scene, user, token, made, acts, overlapped>>
  BY DEF CommitResolve, IInv, Tables, TablesOK
<1>2. /\ report' \in [Reports -> Report \cup {NoReport}]
      /\ hidden' \in BOOLEAN
      /\ \A r \in Reports : (report'[r] # NoReport) <=> (report[r] # NoReport)
      /\ OneOpen'
  BY <1>1, DecideKeepsReports
<1>3. Registered' = Registered /\ \A s \in Txs \ {t} : Held(s)' /\ Calm(s)'
  BY <1>1, <1>2, OthersKeep
<1>4. Tables'
  <2>1. TablesOK'
    BY <1>1, <1>2, <1>3 DEF IInv, Tables, TablesOK, TypeOK, scene
  <2>2. IdsInOrder'
    <3>1. {r \in Reports : report'[r] # NoReport} = {r \in Reports : report[r] # NoReport}
      BY <1>2
    <3> QED  BY <3>1, <1>1 DEF IdsInOrder, IInv, Tables, NoToken, NoReport
  <2>3. TokensOfAccounts' /\ LinksMatch' /\ VerifiedIsProved'
    BY <1>1, <1>3 DEF IInv, Tables, TokensOfAccounts, LinksMatch, VerifiedIsProved, NoToken
  <2>4. ActsOnNobody' /\ ActsAddUp'
    BY <1>1, <1>3 DEF IInv, Tables, ActsOnNobody, ActsAddUp, NewAccount, Standing
  <2> QED  BY <1>2, <2>1, <2>2, <2>3, <2>4 DEF Tables
<1> QED  BY <1>1, <1>3, <1>4, Commit

\* What happens to the content touches nothing that the invariant speaks of.
LEMMA StepContent ==
  ASSUME IInv, AboutContent
  PROVE IInv'
<1>1. /\ UNCHANGED <<indexed, author, user, token, report, tx, acts, overlapped>>
      /\ hidden' \in BOOLEAN
  BY DEF AboutContent, hide_content, restore_content, delete_content, WriteContent, scene
<1>2. Tables'
  BY <1>1 DEF IInv, Tables, TablesOK, TypeOK, IdsInOrder, TokensOfAccounts, ActsOnNobody, ActsAddUp,
       OneOpen, LinksMatch, VerifiedIsProved, Registered
<1>3. TxType' /\ Locks'
  BY <1>1 DEF IInv, TxType, Locks, HoldsAccount, HoldsTokens
<1>4. \A t \in Txs : Held(t)' /\ Calm(t)'
  BY <1>1, HeldStays, CalmStays DEF Registered
<1> QED  BY <1>2, <1>3, <1>4 DEF IInv


-----------------------------------------------------------------------------
(* The invariant. *)

LEMMA Initial == Init => IInv
<1> SUFFICES ASSUME Init PROVE IInv
  OBVIOUS
<1> PICK members \in SUBSET Users \ {{}} :
      \E role \in [members -> Roles], address \in [members -> Addresses] :
         /\ \A u, v \in members : u # v => address[u] # address[v]
         /\ author \in members
         /\ user = [u \in Users |-> IF u \notin members THEN NoUser ELSE NewAccount(role[u], address[u])]
         /\ token = [k \in Tokens |->
              IF k = 1 THEN [user |-> author, address |-> address[author], status |-> "live"] ELSE NoToken]
         /\ acts = [u \in Users |-> Standing(NewAccount(IF u \in members THEN role[u] ELSE "user", None))]
  BY DEF Init
<1> PICK role \in [members -> Roles], address \in [members -> Addresses] :
         /\ \A u, v \in members : u # v => address[u] # address[v]
         /\ author \in members
         /\ user = [u \in Users |-> IF u \notin members THEN NoUser ELSE NewAccount(role[u], address[u])]
         /\ token = [k \in Tokens |->
              IF k = 1 THEN [user |-> author, address |-> address[author], status |-> "live"] ELSE NoToken]
         /\ acts = [u \in Users |-> Standing(NewAccount(IF u \in members THEN role[u] ELSE "user", None))]
  OBVIOUS
<1>1. /\ indexed \in BOOLEAN /\ hidden = FALSE /\ report = [r \in Reports |-> NoReport]
      /\ tx = [t \in Txs |-> Idle] /\ overlapped = {}
  BY DEF Init
<1>2. ASSUME NEW u \in members
      PROVE /\ user[u] \in Account /\ user[u] # NoUser /\ ~user[u].verified /\ user[u].address = address[u]
            /\ Standing(user[u]) = acts[u] /\ acts[u] \in Standings
  <2>1. user[u] = NewAccount(role[u], address[u]) /\ role[u] \in Roles /\ address[u] \in Addresses
    OBVIOUS
  <2>2. acts[u] = Standing(NewAccount(role[u], None))
    OBVIOUS
  <2> QED  BY <2>1, <2>2 DEF NewAccount, Account, Standing, Standings, Statuses, NoUser
<1>3. ASSUME NEW u \in Users \ members
      PROVE user[u] = NoUser /\ acts[u] = Standing(NewAccount("user", None)) /\ acts[u] \in Standings
  BY DEF NewAccount, Standing, Standings, Statuses, Roles
<1>4. Registered = members
  BY <1>2, <1>3 DEF Registered
<1>5. 1 \in Tokens
  BY BoundsAssumption DEF Tokens
<1>6. /\ token[1] = [user |-> author, address |-> address[author], status |-> "live"]
      /\ \A k \in Tokens \ {1} : token[k] = NoToken
  BY <1>5
<1>7. token[1] \in Token /\ token[1] # NoToken /\ token[1].user = author /\ token[1].address = address[author]
      /\ token[1].status = "live"
  BY <1>6 DEF Token, NoToken
<1>8. TablesOK
  <2>1. user \in [Users -> Account \cup {NoUser}]
    BY <1>2, <1>3
  <2>2. token \in [Tokens -> Token \cup {NoToken}]
    BY <1>5, <1>6, <1>7
  <2>3. TypeOK
    BY <1>1, <2>1, <2>2 DEF TypeOK
  <2>4. acts \in [Users -> Standings]
    BY <1>2, <1>3
  <2> QED  BY <1>1, <1>4, <2>3, <2>4 DEF TablesOK
<1>9. IdsInOrder
  <2>1. {k \in Tokens : token[k] # NoToken} = 1..1
    BY <1>5, <1>6, <1>7
  <2>2. {r \in Reports : report[r] # NoReport} = 1..0
    BY <1>1
  <2> QED  BY <2>1, <2>2 DEF IdsInOrder
<1>10. TokensOfAccounts /\ LinksMatch
  <2>1. \A k \in Tokens : token[k] # NoToken => k = 1
    BY <1>6
  <2>2. author \in Registered /\ user[author].address = token[1].address
    BY <1>2, <1>4, <1>7
  <2> QED  BY <1>7, <2>1, <2>2 DEF TokensOfAccounts, LinksMatch
<1>11. ActsOnNobody /\ ActsAddUp
  BY <1>1, <1>2, <1>3, <1>4 DEF ActsOnNobody, ActsAddUp
<1>12. VerifiedIsProved
  BY <1>2, <1>4 DEF VerifiedIsProved
<1>13. OneOpen
  BY <1>1 DEF OneOpen, NoReport
<1>14. TxType /\ Locks /\ \A t \in Txs : Held(t) /\ Calm(t)
  BY <1>1, IdleFields DEF TxType, Locks, Held, Calm, HoldsAccount, HoldsTokens, AddressRequests, Staff, Own
<1> QED  BY <1>8, <1>9, <1>10, <1>11, <1>12, <1>13, <1>14 DEF IInv, Tables

LEMMA Step == IInv /\ [Next]_vars => IInv'
<1> SUFFICES ASSUME IInv, [Next]_vars PROVE IInv'
  OBVIOUS
<1>1. CASE Next
  <2>1. ASSUME NEW t \in Txs, AboutAddress(t) PROVE IInv'
    BY <2>1, BeginRegister, BeginUpdate, BeginResend, BeginVerify, StepRegister, StepResend, StepVerify,
       StepFlushUpdate, StepUpdate DEF AboutAddress
  <2>2. ASSUME NEW t \in Txs, ByStaff(t) PROVE IInv'
    BY <2>2, BeginModerate, BeginResolve, StepApply, StepLock, StepModeration, StepResolve DEF ByStaff
  <2>3. ASSUME NEW t \in Txs, AboutReports(t) PROVE IInv'
    BY <2>3, BeginReport, StepReport DEF AboutReports
  <2>4. ASSUME NEW t \in Txs, Rollback(t) PROVE IInv'
    BY <2>4, StepRollback
  <2>5. CASE AboutContent
    BY <2>5, StepContent
  <2> QED  BY <1>1, <2>1, <2>2, <2>3, <2>4, <2>5 DEF Next
<1>2. CASE UNCHANGED vars
  <2>1. UNCHANGED <<indexed, author, hidden, user, token, report, tx, acts, overlapped>>
    BY <1>2 DEF vars, content, scene
  <2>2. Tables'
    BY <2>1 DEF IInv, Tables, TablesOK, TypeOK, IdsInOrder, TokensOfAccounts, ActsOnNobody, ActsAddUp,
         OneOpen, LinksMatch, VerifiedIsProved, Registered
  <2>3. TxType' /\ Locks'
    BY <2>1 DEF IInv, TxType, Locks, HoldsAccount, HoldsTokens
  <2>4. \A t \in Txs : Held(t)' /\ Calm(t)'
    BY <2>1, HeldStays, CalmStays DEF Registered
  <2> QED  BY <2>2, <2>3, <2>4 DEF IInv
<1> QED  BY <1>1, <1>2

\* The tables are right, and requests hold what they have loaded, in every state.
THEOREM Invariance == Spec => []IInv
BY Initial, Step, PTL DEF Spec

-----------------------------------------------------------------------------
(* The properties. *)

\* The rows of accounts, tokens and reports have their types.
THEOREM TypeCorrect == Spec => []TypeOK
<1>1. IInv => TypeOK
  BY DEF IInv, Tables, TablesOK
<1> QED  BY <1>1, Invariance, PTL

\* Whoever proves an address has followed a link that was sent to it, as long as
\* no two requests about the address overlap.
THEOREM AddressProved == Spec => []VerifiedIsProved
<1>1. IInv => VerifiedIsProved
  BY DEF IInv, Tables
<1> QED  BY <1>1, Invariance, PTL

\* The acts of staff add up: none is lost, however many of them are under way.
THEOREM ActsKept == Spec => []ActsAddUp
<1>1. IInv => ActsAddUp
  BY DEF IInv, Tables
<1> QED  BY <1>1, Invariance, PTL

\* The index leaves an account one open report of a post or a comment.
THEOREM OneReport == Spec => []OneOpenReport
<1>1. ASSUME IInv, indexed, NEW u \in Users PROVE Cardinality(OpenReports(u)) <= 1
  <2>1. OneOpen
    BY <1>1 DEF IInv, Tables
  <2>2. \A r, s \in OpenReports(u) : r = s
    BY <1>1, <2>1 DEF OneOpen, OpenReports
  <2>3. CASE OpenReports(u) = {}
    BY <2>3, FS_EmptySet
  <2>4. CASE OpenReports(u) # {}
    <3> PICK r : r \in OpenReports(u)
      BY <2>4
    <3>1. OpenReports(u) = {r}
      BY <2>2
    <3> QED  BY <3>1, FS_Singleton
  <2> QED  BY <2>3, <2>4
<1>2. IInv => OneOpenReport
  BY <1>1 DEF OneOpenReport
<1> QED  BY <1>2, Invariance, PTL

\* A moderator's ban hits a user: the role that was checked under the lock is the
\* role the account has at the commit.
THEOREM ModeratorsLimited == Spec => ModeratorsBanUsers
<1>1. ASSUME IInv, NEW t \in Txs, CommitModeration(t), tx[t].by = "moderator"
      PROVE user[tx[t].user].role = "user"
  BY <1>1 DEF IInv, Held, CommitModeration
<1>2. IInv /\ [Next]_vars =>
        [\A t \in Txs : CommitModeration(t) /\ tx[t].by = "moderator" => user[tx[t].user].role = "user"]_vars
  BY <1>1
<1> QED  BY <1>2, Invariance, PTL DEF Spec, ModeratorsBanUsers

=============================================================================
