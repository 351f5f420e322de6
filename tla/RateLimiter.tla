----------------------------- MODULE RateLimiter -----------------------------
(***************************************************************************)
(* core/rate_limit.py: one key of the limiter that registrations, logins,  *)
(* reports, messages and the rest ask before they do anything.             *)
(*                                                                         *)
(* Without Redis a process keeps the times of its hits, and counts those   *)
(* of the last window.  With Redis all processes share a counter, which    *)
(* expires one window after the first hit; the command that says so comes  *)
(* after the one that counts.                                              *)
(***************************************************************************)
EXTENDS Integers, Sequences, FiniteSets

CONSTANTS limit, window, \* arguments of check
          Checks         \* calls in flight

ASSUME LimitsAssumption == limit \in Nat \ {0} /\ window \in Nat \ {0}

VARIABLES redis_url, \* whether the setting is there
          now,       \* time.monotonic()
          hits,      \* _local: the hits of the key, oldest first
          counter,   \* the key in Redis; 0 when there is none
          expires,   \* the time it expires, or Never
          check,     \* check[c]: "idle", or "expire": between INCR and EXPIRE
          admitted,  \* history: the times of the calls that were let through
          stopped    \* history: a call has ended between the two commands

limiter == <<redis_url, now, hits, counter, expires, check, admitted, stopped>>

Never == -1

LimiterInit ==
  /\ redis_url \in BOOLEAN
  /\ now = 0
  /\ hits = <<>>
  /\ counter = 0 /\ expires = Never
  /\ check = [c \in Checks |-> "idle"]
  /\ admitted = <<>>
  /\ stopped = FALSE

\* The hits that popleft leaves, which takes the first one as long as it is old.
Recent(times) ==
  LET old == {i \in DOMAIN times : \A j \in 1..i : times[j] <= now - window} IN
  SubSeq(times, Cardinality(old) + 1, Len(times))

\* Every call is atomic, under _lock.
check_local_OneMore ==
  /\ ~redis_url
  /\ LET recent == Recent(hits) IN
       IF Len(recent) > limit
       THEN hits' = recent /\ UNCHANGED admitted
       ELSE hits' = Append(recent, now) /\ admitted' = Append(admitted, now)
  /\ UNCHANGED <<redis_url, now, counter, expires, check, stopped>>
check_local ==
  /\ ~redis_url
  /\ LET recent == Recent(hits) IN
       IF Len(recent) >= limit
       THEN hits' = recent /\ UNCHANGED admitted
       ELSE hits' = Append(recent, now) /\ admitted' = Append(admitted, now)
  /\ UNCHANGED <<redis_url, now, counter, expires, check, stopped>>

\* INCR; the first hit goes on to EXPIRE, any other to its answer.
check_redis_ExpireFull(c) ==
  /\ redis_url /\ check[c] = "idle"
  /\ counter' = counter + 1
  /\ check' = [check EXCEPT ![c] = IF counter' = limit THEN "expire" ELSE "idle"]
  /\ admitted' = IF counter' <= limit THEN Append(admitted, now) ELSE admitted
  /\ UNCHANGED <<redis_url, now, hits, expires, stopped>>
check_redis(c) ==
  /\ redis_url /\ check[c] = "idle"
  /\ counter' = counter + 1
  /\ check' = [check EXCEPT ![c] = IF counter' = 1 THEN "expire" ELSE "idle"]
  /\ admitted' = IF counter' <= limit THEN Append(admitted, now) ELSE admitted
  /\ UNCHANGED <<redis_url, now, hits, expires, stopped>>

expire(c) ==
  /\ check[c] = "expire"
  /\ expires' = now + window
  /\ check' = [check EXCEPT ![c] = "idle"]
  /\ UNCHANGED <<redis_url, now, hits, counter, admitted, stopped>>

\* The process dies, or Redis fails, and the caller gets a 503.
Stop(c) ==
  /\ check[c] = "expire"
  /\ check' = [check EXCEPT ![c] = "idle"]
  /\ stopped' = TRUE
  /\ UNCHANGED <<redis_url, now, hits, counter, expires, admitted>>

\* Redis drops a key at its time.
Tick ==
  /\ now' = now + 1
  /\ LET over == expires # Never /\ expires <= now' IN
       /\ counter' = IF over THEN 0 ELSE counter
       /\ expires' = IF over THEN Never ELSE expires
  /\ UNCHANGED <<redis_url, hits, check, admitted, stopped>>

LimiterNext ==
  \/ check_local \/ Tick
  \/ \E c \in Checks : check_redis(c) \/ expire(c) \/ Stop(c)

-----------------------------------------------------------------------------
(* Properties. *)

\* Of the calls of any span of one window no more are let through than the
\* limit says, in one process, and than twice that by Redis, whose windows have
\* a border that a span may cross.
AdmissionsBounded ==
  Len(Recent(admitted)) <= IF redis_url THEN 2 * limit ELSE limit

\* A key that callers are counted on expires, so that they are let through
\* again, or is just about to be told so; unless a call has ended between the
\* two commands.
CountersExpire ==
  counter > 0 /\ ~stopped => expires # Never \/ \E c \in Checks : check[c] = "expire"
=============================================================================
