---------------------------- MODULE AuthSessions ----------------------------
(***************************************************************************)
(* Refresh sessions and password resets (src/modules/auth), with the ban,  *)
(* unban and deletion of accounts (src/modules/moderation) that end them.  *)
(*                                                                         *)
(* A refresh session is one row and its refresh token; rotate_session      *)
(* revokes the row and inserts its successor.  Requests are READ COMMITTED *)
(* transactions.  The row locks that decide their races are                *)
(*   - FOR UPDATE on the presented session, on the reset token, and on the *)
(*     account in the moderation handlers;                                 *)
(*   - the key share an INSERT takes on the account its row references,    *)
(*     which waits for FOR UPDATE but not for an UPDATE of the password;   *)
(*   - the rows a bulk UPDATE or DELETE has visited: it visits those that  *)
(*     its snapshot shows, one after the other, and waits for each.        *)
(***************************************************************************)
EXTENDS Integers, FiniteSets

CONSTANTS Users,
          Sessions, \* refresh session ids, each with its refresh token
          Resets,   \* password reset tokens
          Txs,      \* database sessions, one per request in flight
          None      \* NULL

ASSUME NoneAssumption == None \notin Users \cup Sessions \cup Resets
ASSUME KeysAssumption == Sessions \cap Resets = {}

VARIABLES account, \* account[u]: status, the number of resets of the password,
                   \* and whether the stored hash is one a password can match
          sess,    \* sess[s]: owner, status, the first session of its chain of
                   \* rotations, and the password its login was checked against
          reset,   \* reset[k]: owner, status, and how often it set the password
          ended,   \* history: the chains that a ban or a deletion has ended
          tx       \* tx[t]: Idle, or the request's position and what it holds

db == <<account, sess, reset, ended>>
vars == <<account, sess, reset, ended, tx>>

\* A row that is past its expires_at is "gone", as one that was deleted: every
\* reader treats the two alike.
Account == [status : {"active", "banned", "deleted"}, password : Nat, usable : BOOLEAN]
NoSession == [user |-> None, status |-> "absent", chain |-> None, password |-> 0]
Session == [user : Users, status : {"live", "revoked", "gone"}, chain : Sessions,
            password : Nat]
NoReset == [user |-> None, status |-> "absent", uses |-> 0]
Reset == [user : Users, status : {"live", "used", "gone"}, uses : Nat]

Idle == [pc |-> "idle"]

\* "login": the password was right.  "rotate", "issue": the presented session
\* is locked, and its owner is active.  "request": the earlier reset tokens of
\* the user are being marked.  "begin", "visit": before and during the bulk
\* statement that ends the sessions of user; via is the locked row it started
\* from, todo the rows still to visit, done the ones it has changed.
OpenTx ==
  [pc : {"login"}, user : Users, password : Nat]
    \cup [pc : {"rotate", "issue"}, sess : Sessions]
    \cup [pc : {"request"}, user : Users, seen : SUBSET Resets]
    \cup [pc : {"begin", "visit"}, why : {"ban", "delete", "replay", "reset"},
          user : Users, via : Sessions \cup Resets \cup {None},
          todo : SUBSET Sessions, done : SUBSET Sessions]

Init ==
  /\ account = [u \in Users |-> [status |-> "active", password |-> 0, usable |-> TRUE]]
  /\ sess = [s \in Sessions |-> NoSession]
  /\ reset = [k \in Resets |-> NoReset]
  /\ ended = {}
  /\ tx = [t \in Txs |-> Idle]

Goto(t, record) == tx' = [tx EXCEPT ![t] = record]

LiveSessions(u) == {s \in Sessions : sess[s].user = u /\ sess[s].status = "live"}
LiveResets(u) == {k \in Resets : reset[k].user = u /\ reset[k].status = "live"}

-----------------------------------------------------------------------------
(* The locks that a session holds, and what is free of the locks of others. *)

Ends(t) == tx[t].pc \in {"begin", "visit"}

\* FOR UPDATE on the account; an uncommitted UPDATE of its password.
HoldsAccount_DeletionOnly(t, u) == Ends(t) /\ tx[t].why = "delete" /\ tx[t].user = u
HoldsAccount(t, u) == Ends(t) /\ tx[t].why \in {"ban", "delete"} /\ tx[t].user = u
WritesAccount(t, u) == tx[t].pc = "visit" /\ tx[t].why = "reset" /\ tx[t].user = u

HoldsSession(t, s) ==
  \/ tx[t].pc \in {"rotate", "issue"} /\ tx[t].sess = s
  \/ Ends(t) /\ (tx[t].via = s \/ s \in tx[t].done)

HoldsReset(t, k) == Ends(t) /\ tx[t].via = k

Others(t) == Txs \ {t}
Referable(t, u) == \A x \in Others(t) : ~HoldsAccount(x, u)
Writable(t, u) == \A x \in Others(t) : ~HoldsAccount(x, u) /\ ~WritesAccount(x, u)
SessionFree(t, s) == \A x \in Others(t) : ~HoldsSession(x, s)
ResetFree(t, k) == \A x \in Others(t) : ~HoldsReset(x, k)

-----------------------------------------------------------------------------
(* Login, refresh, logout. *)

\* authenticate_user.
login(t, u) ==
  /\ tx[t] = Idle
  /\ account[u].status = "active" /\ account[u].usable
  /\ Goto(t, [pc |-> "login", user |-> u, password |-> account[u].password])
  /\ UNCHANGED db

\* create_session after a login: the INSERT, and the commit.
OpenSession(t, s) ==
  /\ tx[t].pc = "login"
  /\ sess[s] = NoSession
  /\ Referable(t, tx[t].user)
  /\ sess' = [sess EXCEPT ![s] = [user |-> tx[t].user, status |-> "live", chain |-> s,
                                  password |-> tx[t].password]]
  /\ Goto(t, Idle)
  /\ UNCHANGED <<account, reset, ended>>

\* rotate_session: the lock on the presented session, and its checks.  A revoked
\* one has been used before: all sessions of the user are to end.
rotate_session_Unlocked(t, s) ==
  /\ tx[t] = Idle
  /\ \/ /\ sess[s].status = "live"
        /\ Goto(t, [pc |-> "rotate", sess |-> s])
     \/ /\ sess[s].status = "revoked"
        /\ Goto(t, [pc |-> "begin", why |-> "replay", user |-> sess[s].user, via |-> s,
                    todo |-> {}, done |-> {}])
  /\ UNCHANGED db
rotate_session(t, s) ==
  /\ tx[t] = Idle
  /\ SessionFree(t, s)
  /\ \/ /\ sess[s].status = "live"
        /\ Goto(t, [pc |-> "rotate", sess |-> s])
     \/ /\ sess[s].status = "revoked"
        /\ Goto(t, [pc |-> "begin", why |-> "replay", user |-> sess[s].user, via |-> s,
                    todo |-> {}, done |-> {}])
  /\ UNCHANGED db

\* A rotation goes on only for an account that is not disabled.
CheckOwner(t) ==
  /\ tx[t].pc = "rotate"
  /\ account[sess[tx[t].sess].user].status = "active"
  /\ Goto(t, [pc |-> "issue", sess |-> tx[t].sess])
  /\ UNCHANGED db

\* revoked_at on the presented session and the INSERT of its successor.
IssueSuccessor(t, s) ==
  LET old == tx[t].sess IN
  /\ tx[t].pc = "issue"
  /\ sess[s] = NoSession
  /\ Referable(t, sess[old].user)
  /\ sess' = [sess EXCEPT ![old].status = "revoked",
                          ![s] = [sess[old] EXCEPT !.status = "live"]]
  /\ Goto(t, Idle)
  /\ UNCHANGED <<account, reset, ended>>

\* revoke_session for the session the request came with.
logout(s) ==
  /\ sess[s].status = "live"
  /\ account[sess[s].user].status = "active"
  /\ \A t \in Txs : ~HoldsSession(t, s)
  /\ sess' = [sess EXCEPT ![s].status = "revoked"]
  /\ UNCHANGED <<account, reset, ended, tx>>

\* expires_at passes.  That it passes under a lock makes no difference: the
\* holder has looked at it already, and the others wait.
expire_session(s) ==
  /\ sess[s].status \in {"live", "revoked"}
  /\ \A t \in Txs : ~HoldsSession(t, s)
  /\ sess' = [sess EXCEPT ![s].status = "gone"]
  /\ UNCHANGED <<account, reset, ended, tx>>

-----------------------------------------------------------------------------
(* Password reset. *)

\* create_password_reset: the bulk UPDATE that marks the earlier tokens,
create_password_reset(t, u) ==
  /\ tx[t] = Idle
  /\ account[u].status = "active"
  /\ Goto(t, [pc |-> "request", user |-> u, seen |-> LiveResets(u)])
  /\ UNCHANGED db

\* and the INSERT of the new one; the email went out in between.
IssueReset(t, k) ==
  LET r == tx[t] IN
  /\ r.pc = "request"
  /\ reset[k] = NoReset
  /\ Referable(t, r.user)
  /\ \A x \in r.seen : ResetFree(t, x)
  /\ reset' = [x \in Resets |->
                 IF x = k THEN [user |-> r.user, status |-> "live", uses |-> 0]
                 ELSE IF x \in r.seen THEN [reset[x] EXCEPT !.status = "used"]
                 ELSE reset[x]]
  /\ Goto(t, Idle)
  /\ UNCHANGED <<account, sess, ended>>

\* reset_password: the lock on the token, and the checks.
reset_password_Unlocked(t, k) ==
  /\ tx[t] = Idle
  /\ reset[k].status = "live"
  /\ account[reset[k].user].status = "active"
  /\ Goto(t, [pc |-> "begin", why |-> "reset", user |-> reset[k].user, via |-> k,
              todo |-> {}, done |-> {}])
  /\ UNCHANGED db
reset_password(t, k) ==
  /\ tx[t] = Idle
  /\ reset[k].status = "live"
  /\ ResetFree(t, k)
  /\ account[reset[k].user].status = "active"
  /\ Goto(t, [pc |-> "begin", why |-> "reset", user |-> reset[k].user, via |-> k,
              todo |-> {}, done |-> {}])
  /\ UNCHANGED db

expire_reset(k) ==
  /\ reset[k].status = "live"
  /\ \A t \in Txs : ~HoldsReset(t, k)
  /\ reset' = [reset EXCEPT ![k].status = "gone"]
  /\ UNCHANGED <<account, sess, ended, tx>>

-----------------------------------------------------------------------------
(* Moderation. *)

\* moderate_user(ban) and delete_user: FOR UPDATE on the account, whatever its
\* status is.
lock_account(t, u, why) ==
  /\ tx[t] = Idle
  /\ Writable(t, u)
  /\ Goto(t, [pc |-> "begin", why |-> why, user |-> u, via |-> None,
              todo |-> {}, done |-> {}])
  /\ UNCHANGED db

\* moderate_user(unban) reactivates any account.
unban(u) ==
  /\ \A t \in Txs : ~HoldsAccount(t, u) /\ ~WritesAccount(t, u)
  /\ account' = [account EXCEPT ![u].status = "active"]
  /\ UNCHANGED <<sess, reset, ended, tx>>

-----------------------------------------------------------------------------
(* The bulk statement that ends the sessions of a user: replay, reset, ban *)
(* and deletion share it.                                                  *)

\* Its snapshot.  A reset has written the password to the account by then.
BeginRevocation(t) ==
  LET e == tx[t] IN
  /\ e.pc = "begin"
  /\ e.why = "reset" => Writable(t, e.user)
  /\ Goto(t, [e EXCEPT !.pc = "visit", !.todo = LiveSessions(e.user)])
  /\ UNCHANGED db

\* One row: wait for its lock, then look at it again.
VisitSession(t, s) ==
  LET e == tx[t] IN
  /\ e.pc = "visit" /\ s \in e.todo
  /\ SessionFree(t, s)
  /\ Goto(t, [e EXCEPT !.todo = @ \ {s},
                       !.done = IF sess[s].status = "live" THEN @ \cup {s} ELSE @])
  /\ UNCHANGED db

Disable_UnknownStatus(u, why) ==
  IF why = "ban" THEN [account EXCEPT ![u].status = "disabled"]
                 ELSE [account EXCEPT ![u].status = "deleted", ![u].usable = FALSE]
Disable(u, why) ==
  IF why = "ban" THEN [account EXCEPT ![u].status = "banned"]
                 ELSE [account EXCEPT ![u].status = "deleted", ![u].usable = FALSE]

SetPassword(u) ==
  [account EXCEPT ![u].password = @ + 1, ![u].usable = TRUE]

\* The last writes and the commit.  A deletion removes every session and reset
\* token of the account.
CommitRevocation(t) ==
  LET e == tx[t]
      of(rows) == {x \in DOMAIN rows : rows[x].user = e.user}
      chains == {sess[s].chain : s \in of(sess)}
  IN
  /\ e.pc = "visit" /\ e.todo = {}
  /\ e.why = "delete" =>
       /\ \A s \in of(sess) : SessionFree(t, s)
       /\ \A k \in of(reset) : ResetFree(t, k)
  /\ sess' = [s \in Sessions |->
                IF e.why = "delete" /\ s \in of(sess) THEN [sess[s] EXCEPT !.status = "gone"]
                ELSE IF s \in e.done THEN [sess[s] EXCEPT !.status = "revoked"]
                ELSE sess[s]]
  /\ reset' = [k \in Resets |->
                 IF e.why = "delete" /\ k \in of(reset) THEN [reset[k] EXCEPT !.status = "gone"]
                 ELSE IF e.why = "reset" /\ k = e.via
                   THEN [reset[k] EXCEPT !.status = "used", !.uses = @ + 1]
                 ELSE reset[k]]
  /\ account' = IF e.why \in {"ban", "delete"} THEN Disable(e.user, e.why)
                ELSE IF e.why = "reset" THEN SetPassword(e.user) ELSE account
  /\ ended' = IF e.why \in {"ban", "delete"} THEN ended \cup chains ELSE ended
  /\ Goto(t, Idle)

\* An AppError, a deadlock victim, a failed email, the process dying.
Rollback(t) ==
  /\ tx[t] # Idle
  /\ Goto(t, Idle)
  /\ UNCHANGED db

-----------------------------------------------------------------------------
Holder(t) ==
  \/ \E u \in Users : login(t, u) \/ create_password_reset(t, u)
  \/ \E s \in Sessions : OpenSession(t, s) \/ rotate_session(t, s) \/ IssueSuccessor(t, s)
  \/ CheckOwner(t)
  \/ \E k \in Resets : IssueReset(t, k) \/ reset_password(t, k)

Revocation(t) ==
  \/ BeginRevocation(t)
  \/ \E s \in Sessions : VisitSession(t, s)
  \/ CommitRevocation(t)

Next ==
  \/ \E t \in Txs : Holder(t) \/ Revocation(t) \/ Rollback(t)
  \/ \E t \in Txs, u \in Users, why \in {"ban", "delete"} : lock_account(t, u, why)
  \/ \E u \in Users : unban(u)
  \/ \E s \in Sessions : logout(s) \/ expire_session(s)
  \/ \E k \in Resets : expire_reset(k)

Spec == Init /\ [][Next]_vars

-----------------------------------------------------------------------------
(* Properties. *)

\* Rows keep the shape of their tables.
TypeOK ==
  /\ account \in [Users -> Account]
  /\ sess \in [Sessions -> Session \cup {NoSession}]
  /\ reset \in [Resets -> Reset \cup {NoReset}]
  /\ ended \subseteq Sessions
  /\ tx \in [Txs -> OpenTx \cup {Idle}]

\* A refresh token is good for one successor: however often and however closely
\* it is presented, of all the sessions that go back to one login at most one
\* is live.
ChainHasOneLiveSession ==
  \A s1, s2 \in Sessions :
    sess[s1].status = "live" /\ sess[s2].status = "live" /\ sess[s1].chain = sess[s2].chain
      => s1 = s2

\* A ban or a deletion ends every chain of rotations that had begun, for good:
\* no rotation in flight carries one across, and no unban brings one back.
BanEndsChains ==
  \A s \in Sessions : sess[s].status = "live" => sess[s].chain \notin ended

\* A reset token sets the password once, even if it is submitted twice at the
\* same moment.
ResetTokenWorksOnce == \A k \in Resets : reset[k].uses <= 1

\* After a reset no session is live that was opened with the password before:
\* what docs/api-v1.md says of POST /auth/password-reset/confirm.  A rotation or
\* a login in flight breaks it.
ResetEndsSessions ==
  \A s \in Sessions : sess[s].status = "live" =>
    sess[s].password = account[sess[s].user].password

=============================================================================
