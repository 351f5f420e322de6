------------------------- MODULE AuthSessionsProofs -------------------------
(***************************************************************************)
(* Proofs about AuthSessions, for any number of users, sessions, tokens    *)
(* and requests in flight.                                                 *)
(*                                                                         *)
(* The inductive invariant says what each lock buys: a locked session or   *)
(* reset token has one holder and stays live under it; and while a ban or  *)
(* a deletion holds the account, every live session of that account is one *)
(* its bulk statement has still to visit or has already changed.  Beside   *)
(* that it follows a chain of rotations to its first session: that one     *)
(* exists, and belongs to the same user.                                   *)
(***************************************************************************)
EXTENDS AuthSessions, TLAPS

LockIsExclusive ==
  /\ \A x, y \in Txs, s \in Sessions : HoldsSession(x, s) /\ HoldsSession(y, s) => x = y
  /\ \A x, y \in Txs, k \in Resets : HoldsReset(x, k) /\ HoldsReset(y, k) => x = y

HeldIsLive ==
  \A t \in Txs :
    /\ tx[t].pc \in {"rotate", "issue"} => sess[tx[t].sess].status = "live"
    /\ Ends(t) => \A s \in tx[t].done : sess[s].status = "live"
    /\ Ends(t) /\ tx[t].why = "reset" => tx[t].via \in Resets /\ reset[tx[t].via].status = "live"

SeenExists ==
  \A t \in Txs : tx[t].pc = "request" => \A k \in tx[t].seen : reset[k].status # "absent"

\* The bulk statement of a ban or a deletion misses no live session.
Covered ==
  \A t \in Txs, s \in Sessions :
    tx[t].pc = "visit" /\ tx[t].why \in {"ban", "delete"}
      /\ sess[s].user = tx[t].user /\ sess[s].status = "live"
    => s \in tx[t].todo \/ s \in tx[t].done

ChainIsRooted ==
  /\ \A s \in Sessions : sess[s].status # "absent" =>
       sess[sess[s].chain].status # "absent" /\ sess[sess[s].chain].user = sess[s].user
  /\ \A c \in ended : sess[c].status # "absent"

LiveIsUnused == \A k \in Resets : reset[k].status = "live" => reset[k].uses = 0

Locking == LockIsExclusive /\ HeldIsLive /\ SeenExists /\ Covered
Rows == /\ ChainIsRooted /\ ChainHasOneLiveSession /\ BanEndsChains
        /\ LiveIsUnused /\ ResetTokenWorksOnce

IInv == TypeOK /\ Locking /\ Rows

-----------------------------------------------------------------------------
(* Types. *)

LEMMA OpenCases ==
  ASSUME TypeOK, NEW t \in Txs
  PROVE /\ tx[t].pc = "login" => tx[t].user \in Users /\ tx[t].password \in Nat
        /\ tx[t].pc \in {"rotate", "issue"} => tx[t].sess \in Sessions
        /\ tx[t].pc = "request" => tx[t].user \in Users /\ tx[t].seen \subseteq Resets
        /\ Ends(t) => /\ tx[t].user \in Users
                      /\ tx[t].todo \subseteq Sessions /\ tx[t].done \subseteq Sessions
                      /\ tx[t].why \in {"ban", "delete", "replay", "reset"}
                      /\ tx[t].via \in Sessions \cup Resets \cup {None}
                      /\ tx[t] \in [pc : {"begin", "visit"}, why : {"ban", "delete", "replay", "reset"},
                                    user : Users, via : Sessions \cup Resets \cup {None},
                                    todo : SUBSET Sessions, done : SUBSET Sessions]
<1>1. tx[t] \in OpenTx \cup {Idle}
  BY DEF TypeOK
<1> QED  BY <1>1 DEF OpenTx, Idle, Ends

LEMMA RowCases ==
  ASSUME TypeOK
  PROVE /\ \A s \in Sessions : sess[s].status # "absent" =>
             /\ sess[s] \in Session
             /\ sess[s].user \in Users /\ sess[s].chain \in Sessions /\ sess[s].password \in Nat
        /\ \A s \in Sessions : sess[s].status = "absent" => sess[s] = NoSession
        /\ \A s \in Sessions : sess[s].user \in Users => sess[s].status # "absent"
        /\ \A k \in Resets : reset[k].status # "absent" =>
             reset[k] \in Reset /\ reset[k].user \in Users
        /\ \A k \in Resets : reset[k].user \in Users => reset[k].status # "absent"
BY NoneAssumption DEF TypeOK, Session, Reset, NoSession, NoReset

\* A step of t that opens a request with a well-typed record and leaves the
\* tables alone.
LEMMA GotoType ==
  ASSUME TypeOK, NEW t \in Txs, NEW record \in OpenTx \cup {Idle}, Goto(t, record)
  PROVE /\ tx' \in [Txs -> OpenTx \cup {Idle}]
        /\ tx'[t] = record /\ \A x \in Txs \ {t} : tx'[x] = tx[x]
        /\ UNCHANGED db => TypeOK'
BY DEF Goto, TypeOK, db

LEMMA IdleType == Idle \in OpenTx \cup {Idle}
OBVIOUS

LEMMA EndType ==
  ASSUME NEW why \in {"ban", "delete", "replay", "reset"}, NEW u \in Users,
         NEW via \in Sessions \cup Resets \cup {None}
  PROVE [pc |-> "begin", why |-> why, user |-> u, via |-> via, todo |-> {}, done |-> {}] \in OpenTx
BY DEF OpenTx

LEMMA InitType == Init => TypeOK
BY DEF Init, TypeOK, Account

-----------------------------------------------------------------------------
(* Steps that move a request on and write nothing: what they have to show. *)

LEMMA StillRows ==
  ASSUME Rows, UNCHANGED db PROVE Rows'
BY DEF Rows, db, ChainIsRooted, ChainHasOneLiveSession, BanEndsChains, LiveIsUnused,
       ResetTokenWorksOnce

\* The request ends, or comes to a point where it holds nothing.
LEMMA Release ==
  ASSUME Locking, NEW t \in Txs, UNCHANGED db,
         tx'[t].pc \in {"idle", "login"}, \A x \in Txs \ {t} : tx'[x] = tx[x]
  PROVE Locking'
<1>1. \A x \in Txs : tx'[x] = tx[x] \/ tx'[x].pc \in {"idle", "login"}
  OBVIOUS
<1>2. \A x \in Txs : /\ \A s : HoldsSession(x, s)' => HoldsSession(x, s)
                     /\ \A k : HoldsReset(x, k)' => HoldsReset(x, k)
                     /\ Ends(x)' => Ends(x) /\ tx'[x] = tx[x]
  BY <1>1 DEF HoldsSession, HoldsReset, Ends
<1>3. LockIsExclusive'
  BY <1>2 DEF Locking, LockIsExclusive
<1>4. HeldIsLive'
  BY <1>1, <1>2 DEF Locking, HeldIsLive, db
<1>5. SeenExists' /\ Covered'
  BY <1>1 DEF Locking, SeenExists, Covered, db
<1> QED  BY <1>3, <1>4, <1>5 DEF Locking

LEMMA LoginStep ==
  ASSUME IInv, NEW t \in Txs, NEW u \in Users, login(t, u) PROVE IInv'
<1> DEFINE r == [pc |-> "login", user |-> u, password |-> account[u].password]
<1>1. r \in OpenTx
  BY DEF OpenTx, IInv, TypeOK, Account
<1>2. r.pc = "login"
  OBVIOUS
<1>3. Goto(t, r) /\ UNCHANGED db
  BY DEF login
<1> HIDE DEF r
<1> QED  BY <1>1, <1>2, <1>3, GotoType, Release, StillRows DEF IInv

LEMMA RollbackStep ==
  ASSUME IInv, NEW t \in Txs, Rollback(t) PROVE IInv'
BY IdleType, GotoType, Release, StillRows DEF IInv, Rollback, Idle

LEMMA CheckOwnerStep ==
  ASSUME IInv, NEW t \in Txs, CheckOwner(t) PROVE IInv'
<1> DEFINE r == [pc |-> "issue", sess |-> tx[t].sess]
<1>1. tx[t].pc = "rotate" /\ tx[t].sess \in Sessions
  BY OpenCases DEF CheckOwner, IInv
<1>2. r \in OpenTx /\ r.pc = "issue" /\ r.sess = tx[t].sess
  BY <1>1 DEF OpenTx
<1>3. Goto(t, r) /\ UNCHANGED db
  BY DEF CheckOwner
<1> HIDE DEF r
<1>4. /\ TypeOK' /\ tx'[t].pc = "issue" /\ tx'[t].sess = tx[t].sess
      /\ \A x \in Txs \ {t} : tx'[x] = tx[x]
  BY <1>2, <1>3, GotoType DEF IInv
<1>5. \A x \in Txs : /\ \A s : HoldsSession(x, s)' => HoldsSession(x, s)
                     /\ \A k : HoldsReset(x, k)' => HoldsReset(x, k)
                     /\ Ends(x)' => Ends(x) /\ tx'[x] = tx[x]
  BY <1>1, <1>4 DEF HoldsSession, HoldsReset, Ends
<1>6. LockIsExclusive'
  BY <1>5 DEF IInv, Locking, LockIsExclusive
<1>7. HeldIsLive'
  BY <1>1, <1>3, <1>4, <1>5 DEF IInv, Locking, HeldIsLive, db
<1>8. SeenExists' /\ Covered'
  BY <1>3, <1>4 DEF IInv, Locking, SeenExists, Covered, db
<1> QED  BY <1>3, <1>4, <1>6, <1>7, <1>8, StillRows DEF IInv, Locking

\* Opening a request that locks session s, or token k, or neither.
LEMMA Acquire ==
  ASSUME IInv, NEW t \in Txs, NEW r \in OpenTx, tx[t] = Idle, Goto(t, r), UNCHANGED db,
         r.pc \in {"rotate", "begin"},
         r.pc = "rotate" => sess[r.sess].status = "live" /\ SessionFree(t, r.sess),
         r.pc = "begin" => /\ r.done = {}
                           /\ \A s \in Sessions : r.via = s => SessionFree(t, s)
                           /\ \A k \in Resets : r.via = k => ResetFree(t, k)
                           /\ r.why = "reset" =>
                                r.via \in Resets /\ reset[r.via].status = "live"
  PROVE IInv'
<1>1. /\ TypeOK' /\ tx'[t] = r /\ tx[t].pc = "idle"
      /\ \A x \in Txs \ {t} : tx'[x] = tx[x]
  BY GotoType DEF IInv, Idle
<1>2. \A x \in Txs \ {t} :
        /\ \A s : HoldsSession(x, s)' <=> HoldsSession(x, s)
        /\ \A k : HoldsReset(x, k)' <=> HoldsReset(x, k)
        /\ Ends(x)' <=> Ends(x)
  BY <1>1 DEF HoldsSession, HoldsReset, Ends
<1>3. \A s \in Sessions : HoldsSession(t, s)' => \A x \in Txs \ {t} : ~HoldsSession(x, s)
  BY <1>1 DEF HoldsSession, Ends, SessionFree, Others
<1>4. \A k \in Resets : HoldsReset(t, k)' => \A x \in Txs \ {t} : ~HoldsReset(x, k)
  BY <1>1 DEF HoldsReset, Ends, ResetFree, Others
<1>5. LockIsExclusive'
  BY <1>2, <1>3, <1>4 DEF IInv, Locking, LockIsExclusive
<1>6. HeldIsLive'
  BY <1>1, <1>2 DEF IInv, Locking, HeldIsLive, Ends, db
<1>7. SeenExists' /\ Covered'
  BY <1>1 DEF IInv, Locking, SeenExists, Covered, db
<1> QED  BY <1>1, <1>5, <1>6, <1>7, StillRows DEF IInv, Locking

LEMMA RotateStep ==
  ASSUME IInv, NEW t \in Txs, NEW s \in Sessions, rotate_session(t, s) PROVE IInv'
<1>1. tx[t] = Idle /\ SessionFree(t, s) /\ UNCHANGED db
  BY DEF rotate_session
<1>2. CASE sess[s].status = "live" /\ Goto(t, [pc |-> "rotate", sess |-> s])
  <2> DEFINE r == [pc |-> "rotate", sess |-> s]
  <2>1. r \in OpenTx /\ r.pc = "rotate" /\ r.sess = s
    BY DEF OpenTx
  <2>2. Goto(t, r)
    BY <1>2
  <2> HIDE DEF r
  <2> QED  BY <1>1, <1>2, <2>1, <2>2, Acquire
<1>3. CASE sess[s].status = "revoked"
  <2> DEFINE r == [pc |-> "begin", why |-> "replay", user |-> sess[s].user, via |-> s,
                   todo |-> {}, done |-> {}]
  <2>1. sess[s].user \in Users
    BY <1>3, RowCases DEF IInv
  <2>2. r \in OpenTx /\ r.pc = "begin" /\ r.done = {} /\ r.via = s /\ r.why = "replay"
    BY <2>1, EndType
  <2>3. Goto(t, r)
    BY <1>3 DEF rotate_session
  <2>4. s \notin Resets
    BY KeysAssumption
  <2> HIDE DEF r
  <2> QED  BY <1>1, <2>2, <2>3, <2>4, Acquire
<1> QED  BY <1>2, <1>3 DEF rotate_session

LEMMA ResetPasswordStep ==
  ASSUME IInv, NEW t \in Txs, NEW k \in Resets, reset_password(t, k) PROVE IInv'
<1> DEFINE r == [pc |-> "begin", why |-> "reset", user |-> reset[k].user, via |-> k,
                 todo |-> {}, done |-> {}]
<1>1. reset[k].user \in Users /\ reset[k].status = "live"
  BY RowCases DEF IInv, reset_password
<1>2. r \in OpenTx /\ r.pc = "begin" /\ r.done = {} /\ r.via = k /\ r.why = "reset"
  BY <1>1, EndType
<1>3. Goto(t, r) /\ UNCHANGED db /\ tx[t] = Idle /\ ResetFree(t, k)
  BY DEF reset_password
<1>4. k \notin Sessions
  BY KeysAssumption
<1> HIDE DEF r
<1> QED  BY <1>1, <1>2, <1>3, <1>4, Acquire

LEMMA LockAccountStep ==
  ASSUME IInv, NEW t \in Txs, NEW u \in Users, NEW why \in {"ban", "delete"},
         lock_account(t, u, why)
  PROVE IInv'
<1> DEFINE r == [pc |-> "begin", why |-> why, user |-> u, via |-> None,
                 todo |-> {}, done |-> {}]
<1>1. r \in OpenTx /\ r.pc = "begin" /\ r.done = {} /\ r.via = None /\ r.why = why
  BY EndType
<1>2. Goto(t, r) /\ UNCHANGED db /\ tx[t] = Idle
  BY DEF lock_account
<1>3. None \notin Sessions /\ None \notin Resets /\ why # "reset"
  BY NoneAssumption
<1> HIDE DEF r
<1> QED  BY <1>1, <1>2, <1>3, Acquire

LEMMA RequestResetStep ==
  ASSUME IInv, NEW t \in Txs, NEW u \in Users, create_password_reset(t, u) PROVE IInv'
<1> DEFINE r == [pc |-> "request", user |-> u, seen |-> LiveResets(u)]
<1>1. r \in OpenTx /\ r.pc = "request" /\ r.seen = LiveResets(u)
  BY DEF OpenTx, LiveResets
<1>2. Goto(t, r) /\ UNCHANGED db /\ tx[t] = Idle
  BY DEF create_password_reset
<1> HIDE DEF r
<1>3. /\ TypeOK' /\ tx'[t].pc = "request" /\ tx'[t].seen = LiveResets(u)
      /\ \A x \in Txs \ {t} : tx'[x] = tx[x]
  BY <1>1, <1>2, GotoType DEF IInv
<1>4. \A x \in Txs : /\ \A s : HoldsSession(x, s)' => HoldsSession(x, s)
                     /\ \A k : HoldsReset(x, k)' => HoldsReset(x, k)
                     /\ Ends(x)' => Ends(x) /\ tx'[x] = tx[x]
  BY <1>3 DEF HoldsSession, HoldsReset, Ends
<1>5. LockIsExclusive'
  BY <1>4 DEF IInv, Locking, LockIsExclusive
<1>6. HeldIsLive'
  BY <1>2, <1>3, <1>4 DEF IInv, Locking, HeldIsLive, db
<1>7. SeenExists' /\ Covered'
  BY <1>2, <1>3 DEF IInv, Locking, SeenExists, Covered, LiveResets, db
<1> QED  BY <1>2, <1>3, <1>5, <1>6, <1>7, StillRows DEF IInv, Locking

LEMMA BeginStep ==
  ASSUME IInv, NEW t \in Txs, BeginRevocation(t) PROVE IInv'
<1> DEFINE r == [tx[t] EXCEPT !.pc = "visit", !.todo = LiveSessions(tx[t].user)]
<1>1. tx[t].pc = "begin" /\ Ends(t)
  BY DEF BeginRevocation, Ends
<1>2. /\ r \in OpenTx /\ r.pc = "visit" /\ r.todo = LiveSessions(tx[t].user)
      /\ r.done = tx[t].done /\ r.via = tx[t].via /\ r.why = tx[t].why
      /\ r.user = tx[t].user
  BY <1>1, OpenCases DEF OpenTx, LiveSessions, IInv
<1>3. Goto(t, r) /\ UNCHANGED db
  BY DEF BeginRevocation
<1> HIDE DEF r
<1>4. TypeOK' /\ tx'[t] = r /\ \A x \in Txs \ {t} : tx'[x] = tx[x]
  BY <1>2, <1>3, GotoType DEF IInv
<1>5. \A x \in Txs : /\ \A s : HoldsSession(x, s)' <=> HoldsSession(x, s)
                     /\ \A k : HoldsReset(x, k)' <=> HoldsReset(x, k)
                     /\ Ends(x)' <=> Ends(x)
  BY <1>1, <1>2, <1>4 DEF HoldsSession, HoldsReset, Ends
<1>6. LockIsExclusive'
  BY <1>5 DEF IInv, Locking, LockIsExclusive
<1>7. HeldIsLive'
  BY <1>1, <1>2, <1>3, <1>4, <1>5 DEF IInv, Locking, HeldIsLive, db
<1>8. SeenExists'
  BY <1>2, <1>3, <1>4 DEF IInv, Locking, SeenExists, db
<1>9. Covered'
  BY <1>2, <1>3, <1>4 DEF IInv, Locking, Covered, LiveSessions, db
<1> QED  BY <1>3, <1>4, <1>6, <1>7, <1>8, <1>9, StillRows DEF IInv, Locking

LEMMA VisitStep ==
  ASSUME IInv, NEW t \in Txs, NEW s \in Sessions, VisitSession(t, s) PROVE IInv'
<1> DEFINE d == IF sess[s].status = "live" THEN tx[t].done \cup {s} ELSE tx[t].done
           r == [tx[t] EXCEPT !.todo = @ \ {s}, !.done = d]
<1>1. /\ tx[t].pc = "visit" /\ Ends(t) /\ s \in tx[t].todo /\ SessionFree(t, s)
      /\ Goto(t, [tx[t] EXCEPT !.todo = @ \ {s},
                               !.done = IF sess[s].status = "live" THEN @ \cup {s} ELSE @])
      /\ UNCHANGED db
  BY DEF VisitSession, Ends
<1>2. /\ r \in OpenTx /\ r.pc = "visit" /\ r.todo = tx[t].todo \ {s} /\ r.done = d
      /\ r.via = tx[t].via /\ r.why = tx[t].why /\ r.user = tx[t].user
  BY <1>1, OpenCases DEF OpenTx, IInv
<1>3. Goto(t, r)
  BY <1>1
<1>4. /\ \A x \in d : x \in tx[t].done \/ (x = s /\ sess[s].status = "live")
      /\ tx[t].done \subseteq d /\ (sess[s].status = "live" => s \in d)
  OBVIOUS
<1> HIDE DEF r, d
<1>5. TypeOK' /\ tx'[t] = r /\ \A x \in Txs \ {t} : tx'[x] = tx[x]
  BY <1>1, <1>2, <1>3, GotoType DEF IInv
<1>6. \A x \in Txs \ {t} :
        /\ \A y : HoldsSession(x, y)' <=> HoldsSession(x, y)
        /\ \A k : HoldsReset(x, k)' <=> HoldsReset(x, k)
        /\ Ends(x)' <=> Ends(x)
  BY <1>5 DEF HoldsSession, HoldsReset, Ends
<1>7. /\ \A y : HoldsSession(t, y)' => HoldsSession(t, y) \/ y = s
      /\ \A k : HoldsReset(t, k)' => HoldsReset(t, k)
  BY <1>1, <1>2, <1>4, <1>5 DEF HoldsSession, HoldsReset, Ends
<1>8. LockIsExclusive'
  BY <1>1, <1>6, <1>7 DEF IInv, Locking, LockIsExclusive, SessionFree, Others
<1>9. HeldIsLive'
  BY <1>1, <1>2, <1>4, <1>5, <1>6 DEF IInv, Locking, HeldIsLive, db
<1>10. SeenExists'
  BY <1>1, <1>2, <1>5 DEF IInv, Locking, SeenExists, db
<1>11. Covered'
  BY <1>1, <1>2, <1>4, <1>5 DEF IInv, Locking, Covered, db
<1> QED  BY <1>1, <1>5, <1>8, <1>9, <1>10, <1>11, StillRows DEF IInv, Locking

-----------------------------------------------------------------------------
(* Steps that write rows.  Whoever writes leaves the rows that others have *)
(* locked as they are, and gives no session to an account that is locked.  *)

LEMMA WriteLocking ==
  ASSUME TypeOK, Locking,
         \A x \in Txs : tx'[x] = tx[x] \/ tx'[x].pc = "idle",
         \A x \in Txs, s \in Sessions :
            tx'[x] = tx[x] /\ HoldsSession(x, s) /\ sess[s].status = "live" =>
              sess'[s].status = "live",
         \A x \in Txs, k \in Resets :
            tx'[x] = tx[x] /\ HoldsReset(x, k) /\ reset[k].status = "live" =>
              reset'[k].status = "live",
         \A k \in Resets : reset[k].status # "absent" => reset'[k].status # "absent",
         \A x \in Txs, s \in Sessions :
            tx'[x] = tx[x] /\ HoldsAccount(x, tx[x].user)
              /\ sess'[s].user = tx[x].user /\ sess'[s].status = "live"
            => sess[s].user = tx[x].user /\ sess[s].status = "live"
  PROVE Locking'
<1>1. \A x \in Txs : /\ \A s : HoldsSession(x, s)' => HoldsSession(x, s) /\ tx'[x] = tx[x]
                     /\ \A k : HoldsReset(x, k)' => HoldsReset(x, k) /\ tx'[x] = tx[x]
                     /\ Ends(x)' => Ends(x) /\ tx'[x] = tx[x]
  BY DEF HoldsSession, HoldsReset, Ends
<1>2. LockIsExclusive'
  BY <1>1 DEF Locking, LockIsExclusive
<1>3. HeldIsLive'
  <2> SUFFICES ASSUME NEW t \in Txs
               PROVE /\ tx'[t].pc \in {"rotate", "issue"} => sess'[tx'[t].sess].status = "live"
                     /\ Ends(t)' => \A s \in tx'[t].done : sess'[s].status = "live"
                     /\ Ends(t)' /\ tx'[t].why = "reset" =>
                          tx'[t].via \in Resets /\ reset'[tx'[t].via].status = "live"
    BY DEF HeldIsLive
  <2>1. ASSUME tx'[t].pc \in {"rotate", "issue"} PROVE sess'[tx'[t].sess].status = "live"
    <3>1. tx'[t] = tx[t] /\ tx[t].sess \in Sessions /\ HoldsSession(t, tx[t].sess)
      BY <2>1, OpenCases DEF HoldsSession
    <3> QED  BY <2>1, <3>1 DEF Locking, HeldIsLive
  <2>2. ASSUME Ends(t)', NEW s \in tx'[t].done PROVE sess'[s].status = "live"
    <3>1. tx'[t] = tx[t] /\ Ends(t) /\ s \in Sessions /\ HoldsSession(t, s)
      BY <1>1, <2>2, OpenCases DEF HoldsSession
    <3> QED  BY <2>2, <3>1 DEF Locking, HeldIsLive
  <2>3. ASSUME Ends(t)', tx'[t].why = "reset"
        PROVE tx'[t].via \in Resets /\ reset'[tx'[t].via].status = "live"
    <3>1. /\ tx'[t] = tx[t] /\ Ends(t)
          /\ tx[t].via \in Resets /\ reset[tx[t].via].status = "live"
      BY <1>1, <2>3 DEF Locking, HeldIsLive
    <3> QED  BY <3>1 DEF HoldsReset
  <2> QED  BY <2>1, <2>2, <2>3
<1>4. SeenExists'
  <2> SUFFICES ASSUME NEW t \in Txs, tx'[t].pc = "request", NEW k \in tx'[t].seen
               PROVE reset'[k].status # "absent"
    BY DEF SeenExists
  <2>1. tx'[t] = tx[t] /\ k \in Resets
    BY OpenCases
  <2> QED  BY <2>1 DEF Locking, SeenExists
<1>5. Covered'
  <2> SUFFICES ASSUME NEW t \in Txs, NEW s \in Sessions,
                      tx'[t].pc = "visit", tx'[t].why \in {"ban", "delete"},
                      sess'[s].user = tx'[t].user, sess'[s].status = "live"
               PROVE s \in tx'[t].todo \/ s \in tx'[t].done
    BY DEF Covered
  <2>1. tx'[t] = tx[t] /\ HoldsAccount(t, tx[t].user)
    BY DEF HoldsAccount, Ends
  <2> QED  BY <2>1 DEF Locking, Covered
<1> QED  BY <1>2, <1>3, <1>4, <1>5 DEF Locking

\* No session is added and none comes back to life.
LEMMA Dwindle ==
  ASSUME TypeOK, Rows, ended' \subseteq Sessions,
         \A s \in Sessions :
            /\ sess'[s].user = sess[s].user /\ sess'[s].chain = sess[s].chain
            /\ sess'[s].status = "absent" <=> sess[s].status = "absent"
            /\ sess'[s].status = "live" => sess[s].status = "live"
            /\ sess'[s].status = "live" => sess'[s].chain \notin ended',
         \A c \in ended' : sess[c].status # "absent"
  PROVE ChainIsRooted' /\ ChainHasOneLiveSession' /\ BanEndsChains'
<1>1. \A s \in Sessions : sess[s].status # "absent" => sess[s].chain \in Sessions
  BY RowCases
<1>2. ChainIsRooted'
  BY <1>1 DEF Rows, ChainIsRooted
<1>3. ChainHasOneLiveSession' /\ BanEndsChains'
  BY DEF Rows, ChainHasOneLiveSession, BanEndsChains
<1> QED  BY <1>2, <1>3

LEMMA StillTokens ==
  ASSUME Rows, reset' = reset PROVE LiveIsUnused' /\ ResetTokenWorksOnce'
BY DEF Rows, LiveIsUnused, ResetTokenWorksOnce

\* A login starts a chain of its own.
LEMMA OpenStep ==
  ASSUME IInv, NEW t \in Txs, NEW s \in Sessions, OpenSession(t, s) PROVE IInv'
<1> DEFINE new == [user |-> tx[t].user, status |-> "live", chain |-> s,
                   password |-> tx[t].password]
<1>1. /\ tx[t].pc = "login" /\ tx[t].user \in Users /\ tx[t].password \in Nat
      /\ sess[s] = NoSession
      /\ Referable(t, tx[t].user) /\ Goto(t, Idle)
      /\ sess' = [sess EXCEPT ![s] = new] /\ UNCHANGED <<account, reset, ended>>
  BY OpenCases DEF OpenSession, IInv
<1>2. new \in Session /\ new.user = tx[t].user /\ new.status = "live" /\ new.chain = s
  BY <1>1 DEF Session
<1> HIDE DEF new
<1>3. /\ tx' \in [Txs -> OpenTx \cup {Idle}] /\ tx'[t].pc = "idle"
      /\ \A x \in Txs \ {t} : tx'[x] = tx[x]
  BY <1>1, GotoType DEF IInv, Idle
<1>4. sess'[s] = new /\ \A x \in Sessions \ {s} : sess'[x] = sess[x]
  BY <1>1 DEF IInv, TypeOK
<1>5. TypeOK'
  BY <1>1, <1>2, <1>3 DEF IInv, TypeOK
<1>6. sess[s].status = "absent"
  BY <1>1 DEF NoSession
<1>7. \A x \in Txs : tx'[x] = tx[x] => x # t
  BY <1>1, <1>3
<1>8. Locking'
  <2>1. \A x \in Txs, y \in Sessions :
          tx'[x] = tx[x] /\ HoldsSession(x, y) /\ sess[y].status = "live" => sess'[y].status = "live"
    BY <1>4, <1>6
  <2>2. \A x \in Txs, y \in Sessions :
          tx'[x] = tx[x] /\ HoldsAccount(x, tx[x].user)
            /\ sess'[y].user = tx[x].user /\ sess'[y].status = "live"
          => sess[y].user = tx[x].user /\ sess[y].status = "live"
    BY <1>1, <1>2, <1>4, <1>7 DEF Referable, Others
  <2> QED  BY <1>1, <1>3, <2>1, <2>2, WriteLocking DEF IInv
<1>9. \A x \in Sessions : sess[x].status # "absent" => x # s /\ sess[x].chain # s
  BY <1>6, RowCases DEF IInv, Rows, ChainIsRooted
<1>10. ChainIsRooted'
  <2> SUFFICES ASSUME NEW x \in Sessions, sess'[x].status # "absent"
               PROVE sess'[sess'[x].chain].status # "absent" /\ sess'[sess'[x].chain].user = sess'[x].user
    BY <1>1, <1>4, <1>6 DEF ChainIsRooted, IInv, Rows, TypeOK
  <2>1. CASE x = s
    BY <1>2, <1>4, <2>1
  <2>2. CASE x # s
    <3>1. sess[x].chain \in Sessions \ {s}
      BY <1>4, <1>9, <2>2, RowCases DEF IInv
    <3> QED  BY <1>4, <2>2, <3>1 DEF IInv, Rows, ChainIsRooted
  <2> QED  BY <2>1, <2>2
<1>11. ChainHasOneLiveSession'
  BY <1>2, <1>4, <1>9 DEF IInv, Rows, ChainHasOneLiveSession
<1>12. BanEndsChains'
  <2>1. s \notin ended
    BY <1>6 DEF IInv, Rows, ChainIsRooted
  <2> QED  BY <1>1, <1>2, <1>4, <2>1 DEF IInv, Rows, BanEndsChains
<1>13. LiveIsUnused' /\ ResetTokenWorksOnce'
  BY <1>1, StillTokens DEF IInv
<1> QED  BY <1>5, <1>8, <1>10, <1>11, <1>12, <1>13 DEF IInv, Rows

\* A rotation puts one live session in the place of another.
LEMMA IssueStep ==
  ASSUME IInv, NEW t \in Txs, NEW s \in Sessions, IssueSuccessor(t, s) PROVE IInv'
<1> DEFINE new == [sess[tx[t].sess] EXCEPT !.status = "live"]
<1>1. PICK old \in Sessions :
        /\ tx[t].sess = old /\ tx[t].pc = "issue" /\ HoldsSession(t, old)
        /\ sess[old].status = "live"
  BY OpenCases DEF IssueSuccessor, IInv, Locking, HeldIsLive, HoldsSession
<1>2. /\ sess[s] = NoSession /\ sess[s].status = "absent" /\ s # old
      /\ Referable(t, sess[old].user) /\ Goto(t, Idle) /\ UNCHANGED <<account, reset, ended>>
  BY <1>1 DEF IssueSuccessor, NoSession
<1>3. sess[old] \in Session /\ sess[old].user \in Users /\ sess[old].chain \in Sessions
  BY <1>1, RowCases DEF IInv
<1>4. /\ sess'[s] = new
      /\ sess'[old] = [sess[old] EXCEPT !.status = "revoked"]
      /\ \A x \in Sessions \ {s, old} : sess'[x] = sess[x]
      /\ sess' = [x \in Sessions |-> sess'[x]]
  BY <1>1, <1>2 DEF IssueSuccessor, IInv, TypeOK
<1>5. /\ new \in Session /\ new.user = sess[old].user /\ new.chain = sess[old].chain
      /\ new.status = "live"
      /\ sess'[old] \in Session /\ sess'[old].user = sess[old].user
      /\ sess'[old].chain = sess[old].chain /\ sess'[old].status = "revoked"
  BY <1>1, <1>3, <1>4 DEF Session
<1> HIDE DEF new
<1>6. /\ tx' \in [Txs -> OpenTx \cup {Idle}] /\ tx'[t].pc = "idle"
      /\ \A x \in Txs \ {t} : tx'[x] = tx[x]
  BY <1>2, IdleType, GotoType DEF IInv, Idle
<1>7. TypeOK'
  <2>1. sess' \in [Sessions -> Session \cup {NoSession}]
    BY <1>4, <1>5 DEF IInv, TypeOK
  <2> QED  BY <1>2, <1>6, <2>1 DEF IInv, TypeOK
<1>8. \A x \in Txs : tx'[x] = tx[x] => x # t
  BY <1>1, <1>6
<1>9. Locking'
  <2>1. \A x \in Txs : tx'[x] = tx[x] => ~HoldsSession(x, old)
    BY <1>1, <1>8 DEF IInv, Locking, LockIsExclusive
  <2>2. \A x \in Txs, y \in Sessions :
          tx'[x] = tx[x] /\ HoldsSession(x, y) /\ sess[y].status = "live" => sess'[y].status = "live"
    BY <1>2, <1>4, <2>1
  <2>3. \A x \in Txs, y \in Sessions :
          tx'[x] = tx[x] /\ HoldsAccount(x, tx[x].user)
            /\ sess'[y].user = tx[x].user /\ sess'[y].status = "live"
          => sess[y].user = tx[x].user /\ sess[y].status = "live"
    BY <1>2, <1>4, <1>5, <1>8 DEF Referable, Others
  <2> QED  BY <1>2, <1>6, <2>2, <2>3, WriteLocking DEF IInv
<1>10. \A x \in Sessions : sess[x].status # "absent" => x # s /\ sess[x].chain # s
  BY <1>2, RowCases DEF IInv, Rows, ChainIsRooted
<1>11. ASSUME NEW x \in Sessions, x # s
       PROVE /\ sess'[x].user = sess[x].user /\ sess'[x].chain = sess[x].chain
             /\ (sess'[x].status # "absent") <=> (sess[x].status # "absent")
             /\ (sess'[x].status = "live") => (sess[x].status = "live" /\ x # old)
  <2>1. CASE x = old
    BY <1>1, <1>5, <2>1
  <2>2. CASE x # old
    <3>1. sess'[x] = sess[x]
      BY <1>4, <1>11, <2>2
    <3> QED  BY <2>2, <3>1
  <2> QED  BY <2>1, <2>2
<1>12. ChainIsRooted'
  <2>1. ASSUME NEW x \in Sessions, sess'[x].status # "absent"
        PROVE sess'[sess'[x].chain].status # "absent" /\ sess'[sess'[x].chain].user = sess'[x].user
    <3>1. PICK y \in Sessions :
            /\ y # s /\ sess[y].status # "absent"
            /\ sess'[x].chain = sess[y].chain /\ sess'[x].user = sess[y].user
      <4>1. CASE x = s
        BY <1>1, <1>2, <1>4, <1>5, <4>1
      <4>2. CASE x # s
        BY <1>11, <2>1, <4>2
      <4> QED  BY <4>1, <4>2
    <3>2. /\ sess[y].chain \in Sessions /\ sess[y].chain # s
          /\ sess[sess[y].chain].status # "absent" /\ sess[sess[y].chain].user = sess[y].user
      BY <1>10, <3>1, RowCases DEF IInv, Rows, ChainIsRooted
    <3> QED  BY <1>11, <3>1, <3>2
  <2>2. ASSUME NEW c \in ended' PROVE sess'[c].status # "absent"
    <3>1. c \in Sessions /\ sess[c].status # "absent"
      BY <1>2, <2>2 DEF IInv, Rows, ChainIsRooted, TypeOK
    <3> QED  BY <1>2, <1>11, <3>1
  <2> QED  BY <2>1, <2>2 DEF ChainIsRooted
<1>13. ChainHasOneLiveSession'
  <2>1. ASSUME NEW x \in Sessions, x # s, sess'[x].status = "live"
        PROVE sess[x].status = "live" /\ sess'[x].chain = sess[x].chain /\ sess'[x].chain # sess[old].chain
    BY <1>1, <1>11, <2>1 DEF IInv, Rows, ChainHasOneLiveSession
  <2> QED  BY <1>4, <1>5, <2>1 DEF IInv, Rows, ChainHasOneLiveSession
<1>14. BanEndsChains'
  <2>1. ASSUME NEW x \in Sessions, sess'[x].status = "live" PROVE sess'[x].chain \notin ended
    <3>1. CASE x = s
      BY <1>1, <1>4, <1>5, <3>1 DEF IInv, Rows, BanEndsChains
    <3>2. CASE x # s
      BY <1>11, <2>1, <3>2 DEF IInv, Rows, BanEndsChains
    <3> QED  BY <3>1, <3>2
  <2> QED  BY <1>2, <2>1 DEF BanEndsChains
<1>15. LiveIsUnused' /\ ResetTokenWorksOnce'
  BY <1>2, StillTokens DEF IInv
<1> QED  BY <1>7, <1>9, <1>12, <1>13, <1>14, <1>15 DEF IInv, Rows

\* A session that nobody has locked is revoked, or expires.
LEMMA LoseSession ==
  ASSUME IInv, NEW s \in Sessions, NEW status \in {"revoked", "gone"},
         sess[s].status \in {"live", "revoked"}, \A t \in Txs : ~HoldsSession(t, s),
         sess' = [sess EXCEPT ![s].status = status], UNCHANGED <<account, reset, ended, tx>>
  PROVE IInv'
<1>1. sess[s] \in Session
  BY RowCases DEF IInv
<1>2. /\ sess'[s] = [sess[s] EXCEPT !.status = status]
      /\ \A x \in Sessions \ {s} : sess'[x] = sess[x]
  BY DEF IInv, TypeOK
<1>3. /\ sess'[s] \in Session /\ sess'[s].user = sess[s].user
      /\ sess'[s].chain = sess[s].chain /\ sess'[s].status = status
  BY <1>1, <1>2 DEF Session
<1>4. TypeOK'
  BY <1>3 DEF IInv, TypeOK
<1>5. Locking'
  <2>1. \A x \in Txs, y \in Sessions :
          HoldsSession(x, y) /\ sess[y].status = "live" => sess'[y].status = "live"
    BY <1>2
  <2>2. \A y \in Sessions :
          sess'[y].user = sess[y].user /\ (sess'[y].status = "live" => sess[y].status = "live")
    BY <1>2, <1>3
  <2> QED  BY <2>1, <2>2, WriteLocking DEF IInv
<1>6. ASSUME NEW x \in Sessions
      PROVE /\ sess'[x].user = sess[x].user /\ sess'[x].chain = sess[x].chain
            /\ (sess'[x].status = "absent") <=> (sess[x].status = "absent")
            /\ sess'[x].status = "live" => sess[x].status = "live"
  <2>1. CASE x = s
    BY <1>3, <2>1
  <2>2. CASE x # s
    BY <1>2, <2>2
  <2> QED  BY <2>1, <2>2
<1>7. \A x \in Sessions : sess'[x].status = "live" => sess'[x].chain \notin ended'
  BY <1>6 DEF IInv, Rows, BanEndsChains
<1>8. ended' \subseteq Sessions /\ \A c \in ended' : sess[c].status # "absent"
  BY DEF IInv, TypeOK, Rows, ChainIsRooted
<1>9. ChainIsRooted' /\ ChainHasOneLiveSession' /\ BanEndsChains'
  BY <1>6, <1>7, <1>8, Dwindle DEF IInv
<1> QED  BY <1>4, <1>5, <1>9, StillTokens DEF IInv, Rows

LEMMA LogoutStep ==
  ASSUME IInv, NEW s \in Sessions, logout(s) PROVE IInv'
BY LoseSession DEF logout

LEMMA ExpireSessionStep ==
  ASSUME IInv, NEW s \in Sessions, expire_session(s) PROVE IInv'
BY LoseSession DEF expire_session

-----------------------------------------------------------------------------
(* Steps that write reset tokens and leave the sessions alone. *)

LEMMA StillSessions ==
  ASSUME Rows, UNCHANGED <<sess, ended>>
  PROVE ChainIsRooted' /\ ChainHasOneLiveSession' /\ BanEndsChains'
BY DEF Rows, ChainIsRooted, ChainHasOneLiveSession, BanEndsChains

LEMMA IssueResetStep ==
  ASSUME IInv, NEW t \in Txs, NEW k \in Resets, IssueReset(t, k) PROVE IInv'
<1>1. /\ tx[t].pc = "request" /\ tx[t].user \in Users /\ tx[t].seen \subseteq Resets
      /\ reset[k] = NoReset /\ reset[k].status = "absent"
      /\ \A x \in tx[t].seen : ResetFree(t, x)
      /\ Goto(t, Idle) /\ UNCHANGED <<account, sess, ended>>
  BY OpenCases DEF IssueReset, IInv, NoReset
<1>2. \A x \in Resets :
        reset'[x] = IF x = k THEN [user |-> tx[t].user, status |-> "live", uses |-> 0]
                    ELSE IF x \in tx[t].seen THEN [reset[x] EXCEPT !.status = "used"]
                    ELSE reset[x]
  BY DEF IssueReset
<1>3. \A x \in tx[t].seen : x # k /\ reset[x].status # "absent"
  BY <1>1 DEF IInv, Locking, SeenExists
<1>4. ASSUME NEW x \in Resets
      PROVE /\ reset'[x] \in Reset \cup {NoReset}
            /\ reset[x].status # "absent" => reset'[x].status # "absent"
            /\ (x \notin tx[t].seen /\ x # k) => reset'[x] = reset[x]
            /\ reset'[x].status = "live" => reset'[x].uses = 0
            /\ reset'[x].uses <= 1
  <2>1. CASE x = k
    <3>1. reset'[x] = [user |-> tx[t].user, status |-> "live", uses |-> 0]
      BY <1>2, <2>1
    <3>2. /\ reset'[x] \in Reset
          /\ reset'[x].status = "live" /\ reset'[x].uses = 0
      BY <1>1, <3>1 DEF Reset
    <3> QED  BY <1>1, <2>1, <3>2
  <2>2. CASE x # k /\ x \in tx[t].seen
    <3>1. reset[x] \in Reset /\ reset[x].uses <= 1 /\ reset'[x] = [reset[x] EXCEPT !.status = "used"]
      BY <1>2, <1>3, <2>2, RowCases DEF IInv, Rows, ResetTokenWorksOnce
    <3> QED  BY <2>2, <3>1 DEF Reset
  <2>3. CASE x # k /\ x \notin tx[t].seen
    <3>1. reset'[x] = reset[x]
      BY <1>2, <2>3
    <3> QED  BY <2>3, <3>1 DEF IInv, TypeOK, Rows, LiveIsUnused, ResetTokenWorksOnce
  <2> QED  BY <2>1, <2>2, <2>3
<1>5. /\ tx' \in [Txs -> OpenTx \cup {Idle}] /\ tx'[t].pc = "idle"
      /\ \A x \in Txs \ {t} : tx'[x] = tx[x]
  BY <1>1, IdleType, GotoType DEF IInv, Idle
<1>6. TypeOK'
  <2>1. reset' = [x \in Resets |-> reset'[x]]
    BY DEF IssueReset
  <2>2. reset' \in [Resets -> Reset \cup {NoReset}]
    BY <1>4, <2>1
  <2> QED  BY <1>1, <1>5, <2>2 DEF IInv, TypeOK
<1>7. Locking'
  <2>1. ASSUME NEW x \in Txs, NEW y \in Resets, tx'[x] = tx[x], HoldsReset(x, y),
               reset[y].status = "live"
        PROVE reset'[y].status = "live"
    <3>1. x # t /\ y # k
      BY <1>1, <1>5, <2>1
    <3>2. y \notin tx[t].seen
      BY <1>1, <2>1, <3>1 DEF ResetFree, Others
    <3> QED  BY <1>4, <2>1, <3>1, <3>2
  <2> QED  BY <1>1, <1>4, <1>5, <2>1, WriteLocking DEF IInv
<1>8. LiveIsUnused' /\ ResetTokenWorksOnce'
  BY <1>4 DEF LiveIsUnused, ResetTokenWorksOnce
<1> QED  BY <1>1, <1>6, <1>7, <1>8, StillSessions DEF IInv, Rows

LEMMA ExpireResetStep ==
  ASSUME IInv, NEW k \in Resets, expire_reset(k) PROVE IInv'
<1>1. /\ reset[k] \in Reset /\ reset[k].status = "live"
      /\ UNCHANGED <<account, sess, ended, tx>> /\ \A t \in Txs : ~HoldsReset(t, k)
  BY RowCases DEF IInv, expire_reset
<1>2. /\ reset'[k] = [reset[k] EXCEPT !.status = "gone"]
      /\ \A x \in Resets \ {k} : reset'[x] = reset[x]
      /\ reset' = [x \in Resets |-> reset'[x]]
  BY DEF expire_reset, IInv, TypeOK
<1>3. reset'[k] \in Reset /\ reset'[k].status = "gone" /\ reset'[k].uses = reset[k].uses
  BY <1>1, <1>2 DEF Reset
<1>4. TypeOK'
  <2>1. reset' \in [Resets -> Reset \cup {NoReset}]
    BY <1>2, <1>3 DEF IInv, TypeOK
  <2> QED  BY <1>1, <2>1 DEF IInv, TypeOK
<1>5. Locking'
  <2>1. \A x \in Txs, y \in Resets : HoldsReset(x, y) => reset'[y].status = reset[y].status
    BY <1>1, <1>2
  <2>2. \A y \in Resets : reset[y].status # "absent" => reset'[y].status # "absent"
    BY <1>2, <1>3
  <2> QED  BY <1>1, <2>1, <2>2, WriteLocking DEF IInv
<1>6. LiveIsUnused' /\ ResetTokenWorksOnce'
  BY <1>2, <1>3 DEF IInv, Rows, LiveIsUnused, ResetTokenWorksOnce
<1> QED  BY <1>1, <1>4, <1>5, <1>6, StillSessions DEF IInv, Rows

-----------------------------------------------------------------------------
(* Moderation, and the end of a revocation. *)

LEMMA UnbanStep ==
  ASSUME IInv, NEW u \in Users, unban(u) PROVE IInv'
<1>1. account' = [account EXCEPT ![u].status = "active"] /\ UNCHANGED <<sess, reset, ended, tx>>
  BY DEF unban
<1>2. TypeOK'
  BY <1>1 DEF IInv, TypeOK, Account
<1>3. Locking'
  BY <1>1, WriteLocking DEF IInv
<1> QED  BY <1>1, <1>2, <1>3, StillSessions, StillTokens DEF IInv, Rows

LEMMA DisableType ==
  ASSUME account \in [Users -> Account], NEW u \in Users, NEW why
  PROVE Disable(u, why) \in [Users -> Account] /\ SetPassword(u) \in [Users -> Account]
<1>1. account[u] \in Account /\ account[u].password + 1 \in Nat
  BY DEF Account
<1>2. /\ [account[u] EXCEPT !.status = "banned"] \in Account
      /\ [account[u] EXCEPT !.status = "deleted", !.usable = FALSE] \in Account
  BY <1>1 DEF Account
<1>3. [account[u] EXCEPT !.password = @ + 1, !.usable = TRUE] \in Account
  BY <1>1 DEF Account
<1>4. Disable(u, why) \in [Users -> Account]
  BY <1>2 DEF Disable
<1>5. SetPassword(u) \in [Users -> Account]
  BY <1>3 DEF SetPassword
<1> QED  BY <1>4, <1>5

LEMMA CommitRevocationStep ==
  ASSUME IInv, NEW t \in Txs, CommitRevocation(t) PROVE IInv'
<1>1. PICK e : e = tx[t]
  OBVIOUS
<1> DEFINE deletes(row) == e.why = "delete" /\ row.user = e.user
           final == e.why \in {"ban", "delete"}
           chains == {sess[s].chain : s \in {x \in Sessions : sess[x].user = e.user}}
<1>2. /\ e.pc = "visit" /\ e.todo = {} /\ Ends(t) /\ e.user \in Users /\ e.done \subseteq Sessions
      /\ e.why \in {"ban", "delete", "replay", "reset"}
      /\ \A s \in e.done : sess[s].status = "live"
      /\ e.why = "reset" => e.via \in Resets /\ reset[e.via].status = "live"
  BY <1>1, OpenCases DEF CommitRevocation, IInv, Locking, HeldIsLive, Ends
<1>3. DOMAIN sess = Sessions /\ DOMAIN reset = Resets
  BY DEF IInv, TypeOK
<1>4. /\ \A s \in Sessions : deletes(sess[s]) => SessionFree(t, s)
      /\ \A k \in Resets : deletes(reset[k]) => ResetFree(t, k)
      /\ Goto(t, Idle)
  BY <1>1, <1>3 DEF CommitRevocation
<1>5. /\ sess' = [s \in Sessions |-> sess'[s]]
      /\ \A s \in Sessions :
           sess'[s] = IF deletes(sess[s]) THEN [sess[s] EXCEPT !.status = "gone"]
                      ELSE IF s \in e.done THEN [sess[s] EXCEPT !.status = "revoked"]
                      ELSE sess[s]
  BY <1>1, <1>3 DEF CommitRevocation
<1>6. /\ reset' = [k \in Resets |-> reset'[k]]
      /\ \A k \in Resets :
           reset'[k] = IF deletes(reset[k]) THEN [reset[k] EXCEPT !.status = "gone"]
                       ELSE IF e.why = "reset" /\ k = e.via
                         THEN [reset[k] EXCEPT !.status = "used", !.uses = @ + 1]
                       ELSE reset[k]
  BY <1>1, <1>3 DEF CommitRevocation
<1>7. /\ account' = IF final THEN Disable(e.user, e.why)
                    ELSE IF e.why = "reset" THEN SetPassword(e.user) ELSE account
      /\ ended' = IF final THEN ended \cup chains ELSE ended
  BY <1>1, <1>3 DEF CommitRevocation
<1>8. ASSUME NEW s \in Sessions
      PROVE /\ sess'[s] \in Session \cup {NoSession}
            /\ sess'[s].user = sess[s].user /\ sess'[s].chain = sess[s].chain
            /\ (sess'[s].status = "absent") <=> (sess[s].status = "absent")
            /\ (sess'[s].status = "live") => (sess[s].status = "live")
            /\ (sess'[s].status = "live") => (s \notin e.done /\ ~deletes(sess[s]))
            /\ (s \notin e.done /\ ~deletes(sess[s])) => sess'[s] = sess[s]
  <2>1. CASE deletes(sess[s])
    <3>1. sess[s] \in Session /\ sess[s].status # "absent"
      BY <1>2, <2>1, RowCases DEF IInv
    <3>2. sess'[s] = [sess[s] EXCEPT !.status = "gone"]
      BY <1>5, <2>1
    <3> QED  BY <2>1, <3>1, <3>2 DEF Session
  <2>2. CASE ~deletes(sess[s]) /\ s \in e.done
    <3>1. sess[s] \in Session /\ sess[s].status = "live"
      BY <1>2, <2>2, RowCases DEF IInv
    <3>2. sess'[s] = [sess[s] EXCEPT !.status = "revoked"]
      BY <1>5, <2>2
    <3> QED  BY <2>2, <3>1, <3>2 DEF Session
  <2>3. CASE ~deletes(sess[s]) /\ s \notin e.done
    <3>1. sess'[s] = sess[s]
      BY <1>5, <2>3
    <3> QED  BY <2>3, <3>1 DEF IInv, TypeOK
  <2> QED  BY <2>1, <2>2, <2>3
<1>9. ASSUME NEW k \in Resets
      PROVE /\ reset'[k] \in Reset \cup {NoReset}
            /\ (reset[k].status # "absent") => (reset'[k].status # "absent")
            /\ (reset'[k].status = "live") => reset'[k].uses = 0
            /\ reset'[k].uses <= 1
            /\ (~deletes(reset[k]) /\ ~(e.why = "reset" /\ k = e.via)) => reset'[k] = reset[k]
  <2>1. CASE deletes(reset[k])
    <3>1. reset[k] \in Reset /\ reset[k].uses <= 1
      BY <1>2, <2>1, RowCases DEF IInv, Rows, ResetTokenWorksOnce
    <3>2. reset'[k] = [reset[k] EXCEPT !.status = "gone"]
      BY <1>6, <2>1
    <3> QED  BY <2>1, <3>1, <3>2 DEF Reset
  <2>2. CASE ~deletes(reset[k]) /\ e.why = "reset" /\ k = e.via
    <3>1. reset[k] \in Reset /\ reset[k].uses = 0
      BY <1>2, <2>2, RowCases DEF IInv, Rows, LiveIsUnused
    <3>2. reset'[k] = [reset[k] EXCEPT !.status = "used", !.uses = @ + 1]
      BY <1>6, <2>2
    <3>3. PICK row : row = reset[k]
      OBVIOUS
    <3>4. row \in Reset /\ row.uses = 0 /\ reset'[k] = [row EXCEPT !.status = "used", !.uses = @ + 1]
      BY <3>1, <3>2, <3>3
    <3>5. row = [user |-> row.user, status |-> row.status, uses |-> 0] /\ row.user \in Users
      BY <3>4 DEF Reset
    <3>6. reset'[k] = [user |-> row.user, status |-> "used", uses |-> 0 + 1]
      BY <3>4, <3>5
    <3>7. reset'[k] \in Reset /\ reset'[k].status = "used" /\ reset'[k].uses = 1
      BY <3>5, <3>6 DEF Reset
    <3> QED  BY <2>2, <3>7
  <2>3. CASE ~deletes(reset[k]) /\ ~(e.why = "reset" /\ k = e.via)
    <3>1. reset'[k] = reset[k]
      BY <1>6, <2>3
    <3> QED  BY <2>3, <3>1 DEF IInv, TypeOK, Rows, LiveIsUnused, ResetTokenWorksOnce
  <2> QED  BY <2>1, <2>2, <2>3
<1>10. /\ tx' \in [Txs -> OpenTx \cup {Idle}] /\ tx'[t].pc = "idle"
       /\ \A x \in Txs \ {t} : tx'[x] = tx[x]
  BY <1>4, IdleType, GotoType DEF IInv, Idle
<1>11. chains \subseteq Sessions /\ \A c \in chains : sess[c].status # "absent" /\ sess[c].user = e.user
  BY <1>2, RowCases DEF IInv, Rows, ChainIsRooted
<1>12. ended' \subseteq Sessions /\ \A c \in ended' : sess[c].status # "absent"
  BY <1>7, <1>11 DEF IInv, TypeOK, Rows, ChainIsRooted
<1>13. TypeOK'
  <2>1. account' \in [Users -> Account]
    BY <1>2, <1>7, DisableType DEF IInv, TypeOK
  <2>2. sess' \in [Sessions -> Session \cup {NoSession}]
    BY <1>5, <1>8
  <2>3. reset' \in [Resets -> Reset \cup {NoReset}]
    BY <1>6, <1>9
  <2> QED  BY <1>10, <1>12, <2>1, <2>2, <2>3 DEF TypeOK
<1>14. Locking'
  <2>1. \A x \in Txs : tx'[x] = tx[x] => x # t
    BY <1>1, <1>2, <1>10
  <2>2. ASSUME NEW x \in Txs, NEW s \in Sessions, x # t, HoldsSession(x, s), sess[s].status = "live"
        PROVE sess'[s].status = "live"
    <3>1. ~deletes(sess[s])
      BY <1>4, <2>2 DEF SessionFree, Others
    <3>2. s \notin e.done
      BY <1>1, <1>2, <2>2 DEF IInv, Locking, LockIsExclusive, HoldsSession
    <3> QED  BY <1>8, <2>2, <3>1, <3>2
  <2>3. ASSUME NEW x \in Txs, NEW k \in Resets, x # t, HoldsReset(x, k), reset[k].status = "live"
        PROVE reset'[k].status = "live"
    <3>1. ~deletes(reset[k])
      BY <1>4, <2>3 DEF ResetFree, Others
    <3>2. ~(e.why = "reset" /\ k = e.via)
      BY <1>1, <1>2, <2>3 DEF IInv, Locking, LockIsExclusive, HoldsReset
    <3> QED  BY <1>9, <2>3, <3>1, <3>2
  <2> HIDE DEF deletes, final, chains
  <2>4. \A s \in Sessions :
          sess'[s].user = sess[s].user /\ (sess'[s].status = "live" => sess[s].status = "live")
    BY <1>8
  <2>5. \A k \in Resets : reset[k].status # "absent" => reset'[k].status # "absent"
    BY <1>9
  <2>6. \A x \in Txs : tx'[x] = tx[x] \/ tx'[x].pc = "idle"
    BY <1>10
  <2> QED  BY <2>1, <2>2, <2>3, <2>4, <2>5, <2>6, WriteLocking DEF IInv
<1>15. ASSUME NEW s \in Sessions, sess'[s].status = "live" PROVE sess'[s].chain \notin ended'
  <2>1. sess[s].status = "live" /\ sess'[s].chain = sess[s].chain /\ sess[s].chain \notin ended
    BY <1>8, <1>15 DEF IInv, Rows, BanEndsChains
  <2>2. CASE ~final
    BY <1>7, <2>1, <2>2
  <2>3. CASE final
    <3>1. sess[s].user # e.user
      BY <1>1, <1>2, <1>8, <1>15, <2>1, <2>3 DEF IInv, Locking, Covered
    <3>2. sess[sess[s].chain].user = sess[s].user
      BY <2>1 DEF IInv, Rows, ChainIsRooted
    <3>3. sess[s].chain \notin chains
      BY <1>11, <3>1, <3>2
    <3> QED  BY <1>7, <2>1, <3>3
  <2> QED  BY <2>2, <2>3
<1>16. ChainIsRooted' /\ ChainHasOneLiveSession' /\ BanEndsChains'
  <2> HIDE DEF deletes, final, chains
  <2> QED  BY <1>8, <1>12, <1>15, Dwindle DEF IInv
<1>17. LiveIsUnused' /\ ResetTokenWorksOnce'
  <2> HIDE DEF deletes
  <2> QED  BY <1>9 DEF LiveIsUnused, ResetTokenWorksOnce
<1> QED  BY <1>13, <1>14, <1>16, <1>17 DEF IInv, Rows

-----------------------------------------------------------------------------
(* The invariant, and the theorems it gives. *)

LEMMA InitIInv == Init => IInv
<1> SUFFICES ASSUME Init PROVE IInv
  OBVIOUS
<1>1. TypeOK
  BY InitType
<1>2. \A t \in Txs : tx[t].pc = "idle"
  BY DEF Init, Idle
<1>3. Locking
  BY <1>2 DEF Locking, LockIsExclusive, HeldIsLive, SeenExists, Covered, HoldsSession, HoldsReset, Ends
<1>4. /\ \A s \in Sessions : sess[s].status = "absent"
      /\ \A k \in Resets : reset[k].status = "absent" /\ reset[k].uses = 0
      /\ ended = {}
  BY DEF Init, NoSession, NoReset
<1>5. Rows
  BY <1>4 DEF Rows, ChainIsRooted, ChainHasOneLiveSession, BanEndsChains, LiveIsUnused,
              ResetTokenWorksOnce
<1> QED  BY <1>1, <1>3, <1>5 DEF IInv

LEMMA StutterStep == ASSUME IInv, UNCHANGED vars PROVE IInv'
<1>1. UNCHANGED db /\ tx' = tx
  BY DEF vars, db
<1>2. TypeOK'
  BY <1>1 DEF IInv, TypeOK, db
<1>3. Locking'
  BY <1>1 DEF IInv, Locking, LockIsExclusive, HeldIsLive, SeenExists, Covered, HoldsSession,
              HoldsReset, Ends, db
<1> QED  BY <1>1, <1>2, <1>3, StillRows DEF IInv

LEMMA NextStep == ASSUME IInv, [Next]_vars PROVE IInv'
<1>1. CASE UNCHANGED vars
  BY <1>1, StutterStep
<1>2. CASE Next
  <2>1. ASSUME NEW t \in Txs, Holder(t) PROVE IInv'
    BY <2>1, LoginStep, RequestResetStep, OpenStep, RotateStep, IssueStep, CheckOwnerStep,
       IssueResetStep, ResetPasswordStep DEF Holder
  <2>2. ASSUME NEW t \in Txs, Revocation(t) PROVE IInv'
    BY <2>2, BeginStep, VisitStep, CommitRevocationStep DEF Revocation
  <2>3. ASSUME NEW t \in Txs, Rollback(t) PROVE IInv'
    BY <2>3, RollbackStep
  <2>4. ASSUME NEW t \in Txs, NEW u \in Users, NEW why \in {"ban", "delete"},
               lock_account(t, u, why) PROVE IInv'
    BY <2>4, LockAccountStep
  <2>5. ASSUME NEW u \in Users, unban(u) PROVE IInv'
    BY <2>5, UnbanStep
  <2>6. ASSUME NEW s \in Sessions, logout(s) \/ expire_session(s) PROVE IInv'
    BY <2>6, LogoutStep, ExpireSessionStep
  <2>7. ASSUME NEW k \in Resets, expire_reset(k) PROVE IInv'
    BY <2>7, ExpireResetStep
  <2> QED  BY <1>2, <2>1, <2>2, <2>3, <2>4, <2>5, <2>6, <2>7 DEF Next
<1> QED  BY <1>1, <1>2

LEMMA Invariance == Spec => []IInv
<1>1. IInv /\ [Next]_vars => IInv'
  BY NextStep
<1> QED  BY InitIInv, <1>1, PTL DEF Spec

\* Whatever requests are in flight, rows keep the shape of their tables.
THEOREM TypeCorrect == Spec => []TypeOK
<1>1. IInv => TypeOK
  BY DEF IInv
<1> QED  BY Invariance, <1>1, PTL

\* rotate_session: the lock on the presented session makes its successor the
\* only live session that goes back to that login.
THEOREM OneLivePerChain == Spec => []ChainHasOneLiveSession
<1>1. IInv => ChainHasOneLiveSession
  BY DEF IInv, Rows
<1> QED  BY Invariance, <1>1, PTL

\* moderate_user and delete_user: as the account is locked before the bulk
\* statement takes its snapshot, no session that a rotation or a login is about
\* to insert escapes it, and an unban revives none.
THEOREM BanIsFinal == Spec => []BanEndsChains
<1>1. IInv => BanEndsChains
  BY DEF IInv, Rows
<1> QED  BY Invariance, <1>1, PTL

\* reset_password: of any number of submissions of one token, one succeeds.
THEOREM ResetOnce == Spec => []ResetTokenWorksOnce
<1>1. IInv => ResetTokenWorksOnce
  BY DEF IInv, Rows
<1> QED  BY Invariance, <1>1, PTL

=============================================================================
