-------------------------- MODULE RateLimiterProofs --------------------------
(***************************************************************************)
(* The proofs that a key of the limiter expires, and that it lets no more  *)
(* calls through than its limit says, for any limit, window and number of  *)
(* calls in flight.                                                        *)
(***************************************************************************)
EXTENDS RateLimiter, FiniteSetTheorems, SequenceTheorems, TLAPS

LimiterSpec == LimiterInit /\ [][LimiterNext]_limiter

\* The first hit finds no key: whoever counts from 0 to 1 has EXPIRE to do.
LimiterInv ==
  /\ now \in Nat /\ counter \in Nat /\ expires \in Int
  /\ check \in [Checks -> {"idle", "expire"}]
  /\ CountersExpire

LEMMA LimiterStep == LimiterInv /\ [LimiterNext]_limiter => LimiterInv'
<1> SUFFICES ASSUME LimiterInv, [LimiterNext]_limiter PROVE LimiterInv'
  OBVIOUS
<1> USE DEF LimiterInv, CountersExpire
<1>1. CASE check_local
  BY <1>1 DEF check_local
<1>2. CASE Tick
  BY <1>2 DEF Tick, Never
<1>3. ASSUME NEW c \in Checks, check_redis(c) PROVE LimiterInv'
  <2>1. now' = now /\ counter' = counter + 1 /\ expires' = expires /\ stopped' = stopped
    BY <1>3 DEF check_redis
  <2>2. check' = [check EXCEPT ![c] = IF counter' = 1 THEN "expire" ELSE "idle"] /\ check[c] = "idle"
    BY <1>3 DEF check_redis
  <2>3. check' \in [Checks -> {"idle", "expire"}]
    BY <2>2
  <2>4. CASE counter = 0
    BY <2>1, <2>2, <2>3, <2>4
  <2>5. CASE counter > 0
    <3>1. \A d \in Checks : check[d] = "expire" => check'[d] = "expire"
      BY <2>2
    <3> QED  BY <2>1, <2>3, <2>5, <3>1
  <2> QED  BY <2>4, <2>5
<1>4. ASSUME NEW c \in Checks, expire(c) PROVE LimiterInv'
  BY <1>4, LimitsAssumption DEF expire, Never
<1>5. ASSUME NEW c \in Checks, Stop(c) PROVE LimiterInv'
  BY <1>5 DEF Stop
<1>6. CASE UNCHANGED limiter
  BY <1>6 DEF limiter
<1> QED  BY <1>1, <1>2, <1>3, <1>4, <1>5, <1>6 DEF LimiterNext

\* Callers that a key turns away are let through again one window later at most,
\* as the key has a time to live, unless a call has ended between INCR and EXPIRE.
THEOREM KeysExpire == LimiterSpec => []CountersExpire
<1>1. LimiterInit => LimiterInv
  BY DEF LimiterInit, LimiterInv, CountersExpire, Never
<1>2. LimiterInv => CountersExpire
  BY DEF LimiterInv
<1> QED  BY <1>1, <1>2, LimiterStep, PTL DEF LimiterSpec

-----------------------------------------------------------------------------
(* No more calls than the limit says. *)

LEMMA UpTo == ASSUME NEW m \in Nat PROVE IsFiniteSet(1..m) /\ Cardinality(1..m) = m
  BY FS_Interval

\* Recent leaves out the old times at the front, and stops at the first other.
LEMMA RecentSuffix ==
  ASSUME NEW times \in Seq(Int), now \in Int
  PROVE  \E n \in 0..Len(times) :
            /\ Recent(times) = SubSeq(times, n + 1, Len(times))
            /\ \A i \in 1..n : times[i] <= now - window
            /\ n < Len(times) => times[n + 1] > now - window
<1> DEFINE old == {i \in DOMAIN times : \A j \in 1..i : times[j] <= now - window}
           n == Cardinality(old)
<1>1. DOMAIN times = 1..Len(times) /\ Len(times) \in Nat
  OBVIOUS
<1>2. old \in SUBSET (1..Len(times)) /\ IsFiniteSet(1..Len(times)) /\ Cardinality(1..Len(times)) = Len(times)
  <2>1. old \in SUBSET (1..Len(times))
    BY <1>1
  <2> HIDE DEF old
  <2> QED  BY ONLY <1>1, <2>1, UpTo
<1>3. IsFiniteSet(old) /\ n \in 0..Len(times)
  BY <1>2, FS_Subset, FS_CardinalityType
<1>4. ASSUME NEW i \in old PROVE i \in Nat /\ i <= n
  <2>1. i \in 1..Len(times) /\ \A j \in 1..i : times[j] <= now - window
    BY <1>1
  <2>2. 1..i \in SUBSET old
    <3> SUFFICES ASSUME NEW m \in 1..i PROVE m \in old
      OBVIOUS
    <3>1. m \in 1..Len(times) /\ \A j \in 1..m : j \in 1..i
      BY <1>1, <2>1
    <3> QED  BY <1>1, <2>1, <3>1
  <2>3. Cardinality(1..i) = i
    BY <2>1, FS_Interval
  <2> QED  BY <1>3, <2>1, <2>2, <2>3, FS_Subset
<1>5. old = 1..n
  <2>1. IsFiniteSet(1..n) /\ Cardinality(1..n) = n
    BY <1>3, FS_Interval
  <2>2. \A i \in old : i \in 1..n
    BY <1>2, <1>3, <1>4
  <2> QED  BY <2>1, <2>2, FS_Subset
<1>6. \A i \in 1..n : times[i] <= now - window
  BY <1>3, <1>5
<1>7. ASSUME n < Len(times) PROVE times[n + 1] > now - window
  <2>1. n + 1 \in DOMAIN times /\ n + 1 \notin old
    <3> HIDE DEF n, old
    <3> QED  BY <1>1, <1>3, <1>5, <1>7
  <2>2. \E j \in 1..(n + 1) : ~(times[j] <= now - window)
    BY <2>1
  <2>3. times[n + 1] \in Int
    BY <2>1
  <2> QED  BY <1>6, <2>2, <2>3, <1>3, LimitsAssumption
<1>8. Recent(times) = SubSeq(times, n + 1, Len(times))
  BY DEF Recent
<1> QED  BY <1>3, <1>6, <1>7, <1>8

\* The end of a sequence, from its m-th element on.
LEMMA SuffixFacts ==
  ASSUME NEW s \in Seq(Int), NEW m \in 0..Len(s)
  PROVE  /\ SubSeq(s, m + 1, Len(s)) \in Seq(Int)
         /\ Len(SubSeq(s, m + 1, Len(s))) = Len(s) - m
         /\ \A i \in 1..(Len(s) - m) : SubSeq(s, m + 1, Len(s))[i] = s[m + i]
<1> DEFINE a == m + 1
           t == SubSeq(s, a, Len(s))
<1>1. Len(s) \in Nat /\ a \in Int /\ Len(s) \in Int
  OBVIOUS
<1>2. \A i \in a..Len(s) : s[i] \in Int
  OBVIOUS
<1>3. /\ t \in Seq(Int) /\ Len(t) = (IF a <= Len(s) THEN Len(s) - a + 1 ELSE 0)
      /\ \A i \in 1..(Len(s) - a + 1) : t[i] = s[a + i - 1]
  <2> HIDE DEF a
  <2> QED  BY <1>1, <1>2, SubSeqProperties
<1>4. Len(t) = Len(s) - m
  <2> HIDE DEF t
  <2>1. CASE a <= Len(s)
    BY <1>1, <1>3, <2>1
  <2>2. CASE ~(a <= Len(s))
    BY <1>1, <1>3, <2>2
  <2> QED  BY <2>1, <2>2
<1>5. \A i \in 1..(Len(s) - m) : t[i] = s[m + i]
  <2> TAKE i \in 1..(Len(s) - m)
  <2>1. a + i - 1 = m + i /\ i \in 1..(Len(s) - a + 1)
    BY <1>1
  <2> QED  BY <1>3, <2>1
<1> QED  BY <1>3, <1>4, <1>5

LEMMA SuffixOfSuffix ==
  ASSUME NEW s \in Seq(Int), NEW m \in 0..Len(s), NEW n \in 0..(Len(s) - m)
  PROVE  SubSeq(SubSeq(s, m + 1, Len(s)), n + 1, Len(s) - m) = SubSeq(s, m + n + 1, Len(s))
<1> DEFINE t == SubSeq(s, m + 1, Len(s))
<1>1. t \in Seq(Int) /\ Len(t) = Len(s) - m /\ \A i \in 1..(Len(s) - m) : t[i] = s[m + i]
  BY SuffixFacts
<1> HIDE DEF t
<1>2. m + n \in 0..Len(s) /\ n \in 0..Len(t) /\ Len(s) \in Nat
  BY <1>1
<1>3. /\ SubSeq(t, n + 1, Len(t)) \in Seq(Int) /\ Len(SubSeq(t, n + 1, Len(t))) = Len(t) - n
      /\ \A i \in 1..(Len(t) - n) : SubSeq(t, n + 1, Len(t))[i] = t[n + i]
  BY <1>1, <1>2, SuffixFacts
<1>4. /\ SubSeq(s, m + n + 1, Len(s)) \in Seq(Int) /\ Len(SubSeq(s, m + n + 1, Len(s))) = Len(s) - (m + n)
      /\ \A i \in 1..(Len(s) - (m + n)) : SubSeq(s, m + n + 1, Len(s))[i] = s[m + n + i]
  BY <1>2, SuffixFacts
<1>5. \A i \in 1..(Len(t) - n) : SubSeq(t, n + 1, Len(t))[i] = SubSeq(s, m + n + 1, Len(s))[i]
  <2> TAKE i \in 1..(Len(t) - n)
  <2>1. n + i \in 1..(Len(s) - m) /\ i \in 1..(Len(s) - (m + n)) /\ m + (n + i) = m + n + i
    BY <1>1, <1>2
  <2> QED  BY <1>1, <1>3, <1>4, <2>1
<1>6. Len(t) - n = Len(s) - (m + n)
  BY <1>1, <1>2
<1>7. SubSeq(t, n + 1, Len(t)) = SubSeq(s, m + n + 1, Len(s))
  BY <1>3, <1>4, <1>5, <1>6, SeqEqual
<1> QED  BY <1>1, <1>7 DEF t

LEMMA SuffixAppend ==
  ASSUME NEW s \in Seq(Int), NEW m \in 0..Len(s), NEW x \in Int
  PROVE  Append(SubSeq(s, m + 1, Len(s)), x) = SubSeq(Append(s, x), m + 1, Len(s) + 1)
<1> DEFINE t == SubSeq(s, m + 1, Len(s))
           u == Append(s, x)
<1>1. t \in Seq(Int) /\ Len(t) = Len(s) - m /\ \A i \in 1..(Len(s) - m) : t[i] = s[m + i]
  BY SuffixFacts
<1>2. u \in Seq(Int) /\ Len(u) = Len(s) + 1 /\ u[Len(s) + 1] = x /\ \A i \in 1..Len(s) : u[i] = s[i]
  BY AppendProperties
<1>3. Len(s) \in Nat
  OBVIOUS
<1> HIDE DEF t, u
<1>4. /\ Append(t, x) \in Seq(Int) /\ Len(Append(t, x)) = Len(t) + 1
      /\ Append(t, x)[Len(t) + 1] = x /\ \A i \in 1..Len(t) : Append(t, x)[i] = t[i]
  BY <1>1, AppendProperties
<1>5. m \in 0..Len(u)
  BY <1>2, <1>3
<1>6. /\ SubSeq(u, m + 1, Len(u)) \in Seq(Int) /\ Len(SubSeq(u, m + 1, Len(u))) = Len(u) - m
      /\ \A i \in 1..(Len(u) - m) : SubSeq(u, m + 1, Len(u))[i] = u[m + i]
  BY <1>2, <1>5, SuffixFacts
<1>7. \A i \in 1..(Len(t) + 1) : Append(t, x)[i] = SubSeq(u, m + 1, Len(u))[i]
  <2> TAKE i \in 1..(Len(t) + 1)
  <2>1. CASE i \in 1..Len(t)
    <3>1. m + i \in 1..Len(s) /\ i \in 1..(Len(s) - m) /\ i \in 1..(Len(u) - m)
      BY <1>1, <1>2, <1>3, <2>1
    <3> QED  BY <1>1, <1>2, <1>4, <1>6, <2>1, <3>1
  <2>2. CASE i = Len(t) + 1
    <3>1. m + i = Len(s) + 1 /\ i \in 1..(Len(u) - m)
      BY <1>1, <1>2, <1>3, <2>2
    <3> QED  BY <1>2, <1>4, <1>6, <2>2, <3>1
  <2>3. Len(t) \in Nat
    BY <1>1
  <2>4. i \in 1..Len(t) \/ i = Len(t) + 1
    BY <2>3
  <2> QED  BY <2>1, <2>2, <2>4
<1>8. Len(u) - m = Len(t) + 1
  BY <1>1, <1>2, <1>3
<1>9. Append(t, x) = SubSeq(u, m + 1, Len(u))
  BY <1>4, <1>6, <1>7, <1>8, SeqEqual
<1> QED  BY <1>2, <1>9 DEF t, u

\* Without Redis the hits are the latest admissions, and those that have been
\* forgotten are old.
LocalWindow ==
  \E forgotten \in 0..Len(admitted) :
    /\ hits = SubSeq(admitted, forgotten + 1, Len(admitted))
    /\ Len(admitted) - forgotten <= limit
    /\ \A k \in 1..forgotten : admitted[k] <= now - window

\* With Redis there are those of the key that counts now, those of the key before
\* it, and older ones; the key before it was gone before this one was made, and
\* its calls are old when this one expires.
RedisWindows ==
  \E older, before \in 0..Len(admitted) :
    /\ older <= before /\ before - older <= limit
    /\ Len(admitted) - before = IF counter < limit THEN counter ELSE limit
    /\ \A k \in 1..older : admitted[k] <= now - window
    /\ expires # Never => \A k \in 1..before : admitted[k] <= expires - window

WindowInv ==
  /\ redis_url \in BOOLEAN
  /\ now \in Nat /\ counter \in Nat /\ expires \in Int
  /\ admitted \in Seq(Int) /\ hits \in Seq(Int)
  /\ \A k \in DOMAIN admitted : admitted[k] <= now
  /\ ~redis_url => LocalWindow
  /\ redis_url => RedisWindows

LEMMA WindowInit == LimiterInit => WindowInv
<1> SUFFICES ASSUME LimiterInit PROVE WindowInv
  OBVIOUS
<1>1. admitted = <<>> /\ hits = <<>> /\ Len(admitted) = 0 /\ 0 \in 0..Len(admitted)
  BY DEF LimiterInit
<1>2. SubSeq(<<>>, 1, 0) = <<>>
  OBVIOUS
<1>3. LocalWindow
  BY <1>1, <1>2, LimitsAssumption DEF LocalWindow
<1>4. RedisWindows
  BY <1>1, LimitsAssumption DEF RedisWindows, LimiterInit, Never
<1> QED  BY <1>1, <1>3, <1>4 DEF LimiterInit, WindowInv, Never

LEMMA WindowBounds == WindowInv => AdmissionsBounded
<1> SUFFICES ASSUME WindowInv PROVE AdmissionsBounded
  OBVIOUS
<1>1. PICK n \in 0..Len(admitted) :
         /\ Recent(admitted) = SubSeq(admitted, n + 1, Len(admitted))
         /\ n < Len(admitted) => admitted[n + 1] > now - window
  BY RecentSuffix DEF WindowInv
<1>2. Len(Recent(admitted)) = Len(admitted) - n
  BY <1>1 DEF WindowInv
<1>3. ASSUME NEW m \in 0..Len(admitted), \A k \in 1..m : admitted[k] <= now - window PROVE m <= n
  <2>1. n \in Int /\ m \in Int /\ now - window \in Int
    BY LimitsAssumption DEF WindowInv
  <2>2. SUFFICES ASSUME n < m PROVE FALSE
    BY <2>1
  <2>3. n + 1 \in 1..m /\ n < Len(admitted) /\ admitted[n + 1] \in Int
    BY <2>2, <1>1, <1>3 DEF WindowInv
  <2> QED  BY <1>1, <1>3, <2>1, <2>3
<1>4. CASE redis_url
  <2>1. PICK older, before \in 0..Len(admitted) :
           /\ older <= before /\ before - older <= limit
           /\ Len(admitted) - before = IF counter < limit THEN counter ELSE limit
           /\ \A k \in 1..older : admitted[k] <= now - window
    BY <1>4 DEF WindowInv, RedisWindows
  <2>2. older <= n
    BY <1>3, <2>1
  <2> QED  BY <1>2, <1>4, <2>1, <2>2, LimitsAssumption DEF WindowInv, AdmissionsBounded
<1>5. CASE ~redis_url
  <2>1. PICK forgotten \in 0..Len(admitted) :
           /\ Len(admitted) - forgotten <= limit
           /\ \A k \in 1..forgotten : admitted[k] <= now - window
    BY <1>5 DEF WindowInv, LocalWindow
  <2>2. forgotten <= n
    BY <1>3, <2>1
  <2> QED  BY <1>2, <1>5, <2>1, <2>2, LimitsAssumption DEF WindowInv, AdmissionsBounded
<1> QED  BY <1>4, <1>5 DEF WindowInv


\* A call without Redis: the old hits are forgotten, and the call is one more.
LEMMA LocalStep == WindowInv /\ check_local => WindowInv'
<1> SUFFICES ASSUME WindowInv, check_local PROVE WindowInv'
  OBVIOUS
<1>1. PICK f \in 0..Len(admitted) :
         /\ hits = SubSeq(admitted, f + 1, Len(admitted))
         /\ Len(admitted) - f <= limit
         /\ \A k \in 1..f : admitted[k] <= now - window
  BY DEF check_local, WindowInv, LocalWindow
<1>2. PICK n \in 0..Len(hits) :
         /\ Recent(hits) = SubSeq(hits, n + 1, Len(hits))
         /\ \A i \in 1..n : hits[i] <= now - window
  <2>1. hits \in Seq(Int) /\ now \in Int
    BY DEF WindowInv
  <2> QED  BY ONLY <2>1, RecentSuffix
<1>3. Len(hits) = Len(admitted) - f /\ \A i \in 1..Len(hits) : hits[i] = admitted[f + i]
  BY <1>1, SuffixFacts DEF WindowInv
<1>4. now' = now /\ redis_url' = redis_url /\ ~redis_url /\ counter' = counter /\ expires' = expires
  BY DEF check_local
<1>5. f + n \in 0..Len(admitted) /\ Len(admitted) - (f + n) <= limit
  <2>1. Len(admitted) \in Nat
    BY DEF WindowInv
  <2> QED  BY <1>1, <1>2, <1>3, <2>1, LimitsAssumption
<1>6. \A k \in 1..(f + n) : admitted[k] <= now - window
  <2> SUFFICES ASSUME NEW k \in 1..(f + n), ~(k \in 1..f) PROVE admitted[k] <= now - window
    BY <1>1
  <2>1. k - f \in 1..n /\ k - f \in 1..Len(hits) /\ f + (k - f) = k
    BY <1>1, <1>2 DEF WindowInv
  <2>2. hits[k - f] <= now - window
    BY <1>2, <2>1
  <2>3. hits[k - f] = admitted[f + (k - f)]
    BY <1>3, <2>1
  <2> QED  BY <2>1, <2>2, <2>3
<1>7. Recent(hits) = SubSeq(admitted, f + n + 1, Len(admitted)) /\ Recent(hits) \in Seq(Int)
      /\ Len(Recent(hits)) = Len(admitted) - (f + n)
  <2>1. n \in 0..(Len(admitted) - f)
    BY <1>3
  <2>2. Recent(hits) = SubSeq(SubSeq(admitted, f + 1, Len(admitted)), n + 1, Len(admitted) - f)
    BY <1>1, <1>2, <1>3
  <2>3. admitted \in Seq(Int) /\ f + n + 1 = (f + n) + 1
    BY DEF WindowInv
  <2>4. Recent(hits) = SubSeq(admitted, f + n + 1, Len(admitted))
    BY <2>1, <2>2, <2>3, SuffixOfSuffix
  <2>5. /\ SubSeq(admitted, f + n + 1, Len(admitted)) \in Seq(Int)
        /\ Len(SubSeq(admitted, f + n + 1, Len(admitted))) = Len(admitted) - (f + n)
    <3> DEFINE m == f + n
    <3>1. m \in 0..Len(admitted)
      BY <1>5
    <3> HIDE DEF m
    <3>2. SubSeq(admitted, m + 1, Len(admitted)) \in Seq(Int)
          /\ Len(SubSeq(admitted, m + 1, Len(admitted))) = Len(admitted) - m
      BY <2>3, <3>1, SuffixFacts
    <3> QED  BY <3>2 DEF m
  <2> QED  BY <2>4, <2>5
<1>8. CASE Len(Recent(hits)) >= limit
  <2>1. hits' = Recent(hits) /\ admitted' = admitted
    BY <1>8 DEF check_local
  <2>2. LocalWindow'
    BY <1>4, <1>5, <1>6, <1>7, <2>1 DEF LocalWindow
  <2> QED  BY <1>4, <1>7, <2>1, <2>2 DEF WindowInv
<1>9. CASE ~(Len(Recent(hits)) >= limit)
  <2>1. hits' = Append(Recent(hits), now) /\ admitted' = Append(admitted, now)
    BY <1>9 DEF check_local
  <2>2. /\ Len(admitted') = Len(admitted) + 1 /\ admitted' \in Seq(Int) /\ hits' \in Seq(Int)
        /\ \A k \in 1..Len(admitted) : admitted'[k] = admitted[k]
        /\ admitted'[Len(admitted) + 1] = now
    BY <1>7, <2>1 DEF WindowInv
  <2>3. \A k \in DOMAIN admitted' : admitted'[k] <= now'
    <3>0. DOMAIN admitted = 1..Len(admitted) /\ DOMAIN admitted' = 1..Len(admitted')
          /\ Len(admitted) \in Nat /\ now \in Int
      BY <2>2 DEF WindowInv
    <3>1. \A k \in DOMAIN admitted' : k \in DOMAIN admitted \/ k = Len(admitted) + 1
      BY <2>2, <3>0
    <3>2. \A k \in DOMAIN admitted : admitted'[k] = admitted[k]
      BY <2>2, <3>0
    <3>3. \A k \in DOMAIN admitted : admitted[k] <= now
      BY DEF WindowInv
    <3>4. now <= now
      BY <3>0
    <3> QED  BY <1>4, <2>2, <3>1, <3>2, <3>3, <3>4
  <2>4. hits' = SubSeq(admitted', f + n + 1, Len(admitted'))
    <3>1. admitted \in Seq(Int) /\ now \in Int
      BY DEF WindowInv
    <3>2. Append(SubSeq(admitted, (f + n) + 1, Len(admitted)), now)
            = SubSeq(Append(admitted, now), (f + n) + 1, Len(admitted) + 1)
      BY <1>5, <3>1, SuffixAppend
    <3> QED  BY <1>7, <2>1, <2>2, <3>2
  <2>5. f + n \in 0..Len(admitted') /\ Len(admitted') - (f + n) <= limit
    BY <1>5, <1>7, <1>9, <2>2, LimitsAssumption DEF WindowInv
  <2>6. \A k \in 1..(f + n) : admitted'[k] <= now' - window
    <3>1. \A k \in 1..(f + n) : k \in 1..Len(admitted)
      BY <1>5 DEF WindowInv
    <3> QED  BY <1>4, <1>6, <2>2, <3>1
  <2>7. LocalWindow'
    BY <2>4, <2>5, <2>6 DEF LocalWindow
  <2> QED  BY <1>4, <2>2, <2>3, <2>7 DEF WindowInv
<1> QED  BY <1>8, <1>9

\* A call with Redis is one more for the key that counts, as long as it is let through.
LEMMA RedisStep == ASSUME WindowInv, NEW c \in Checks, check_redis(c) PROVE WindowInv'
<1>1. /\ now' = now /\ redis_url' = redis_url /\ redis_url /\ counter' = counter + 1
      /\ expires' = expires /\ hits' = hits
  BY DEF check_redis
<1>2. PICK i, j \in 0..Len(admitted) :
         /\ i <= j /\ j - i <= limit
         /\ Len(admitted) - j = IF counter < limit THEN counter ELSE limit
         /\ \A k \in 1..i : admitted[k] <= now - window
         /\ expires # Never => \A k \in 1..j : admitted[k] <= expires - window
  BY <1>1 DEF WindowInv, RedisWindows
<1>3. CASE counter + 1 <= limit
  <2>1. admitted' = Append(admitted, now)
    BY <1>1, <1>3 DEF check_redis
  <2>2. /\ Len(admitted') = Len(admitted) + 1 /\ admitted' \in Seq(Int)
        /\ \A k \in 1..Len(admitted) : admitted'[k] = admitted[k]
        /\ admitted'[Len(admitted) + 1] = now
    BY <2>1 DEF WindowInv
  <2>3. \A k \in DOMAIN admitted' : admitted'[k] <= now'
    <3>0. DOMAIN admitted = 1..Len(admitted) /\ DOMAIN admitted' = 1..Len(admitted')
          /\ Len(admitted) \in Nat /\ now \in Int
      BY <2>2 DEF WindowInv
    <3>1. \A k \in DOMAIN admitted' : k \in DOMAIN admitted \/ k = Len(admitted) + 1
      BY <2>2, <3>0
    <3>2. \A k \in DOMAIN admitted : admitted'[k] = admitted[k]
      BY <2>2, <3>0
    <3>3. \A k \in DOMAIN admitted : admitted[k] <= now
      BY DEF WindowInv
    <3>4. now <= now
      BY <3>0
    <3> QED  BY <1>1, <2>2, <3>1, <3>2, <3>3, <3>4
  <2>4. \A k \in 1..j : k \in 1..Len(admitted)
    BY DEF WindowInv
  <2>5. \A k \in 1..i : k \in 1..Len(admitted)
    BY DEF WindowInv
  <2>6. i \in 0..Len(admitted') /\ j \in 0..Len(admitted')
        /\ Len(admitted') - j = IF counter' < limit THEN counter' ELSE limit
    BY <1>1, <1>2, <1>3, <2>2, LimitsAssumption DEF WindowInv
  <2>7. \A k \in 1..i : admitted'[k] <= now' - window
    BY <1>1, <1>2, <2>2, <2>5
  <2>8. expires' # Never' => \A k \in 1..j : admitted'[k] <= expires' - window
    BY <1>1, <1>2, <2>2, <2>4 DEF Never
  <2>9. RedisWindows'
    BY <1>2, <2>6, <2>7, <2>8 DEF RedisWindows
  <2> QED  BY <1>1, <2>2, <2>3, <2>9 DEF WindowInv
<1>4. CASE ~(counter + 1 <= limit)
  <2>1. admitted' = admitted
    BY <1>1, <1>4 DEF check_redis
  <2>2. Len(admitted) - j = IF counter' < limit THEN counter' ELSE limit
    BY <1>1, <1>2, <1>4, LimitsAssumption DEF WindowInv
  <2>3. RedisWindows'
    BY <1>1, <1>2, <2>1, <2>2 DEF RedisWindows, Never
  <2> QED  BY <1>1, <2>1, <2>3 DEF WindowInv
<1> QED  BY <1>3, <1>4

\* Once the key expires its calls are those of the key before.
LEMMA TickStep == WindowInv /\ Tick => WindowInv'
<1> SUFFICES ASSUME WindowInv, Tick PROVE WindowInv'
  OBVIOUS
<1>1. now' = now + 1 /\ redis_url' = redis_url /\ admitted' = admitted /\ hits' = hits
  BY DEF Tick
<1>2. \A k \in DOMAIN admitted : admitted[k] \in Int
  BY DEF WindowInv
<1>3. counter' \in Nat /\ expires' \in Int
  BY DEF Tick, WindowInv, Never
<1>4. ASSUME ~redis_url PROVE LocalWindow'
  <2>1. PICK f \in 0..Len(admitted) :
           /\ hits = SubSeq(admitted, f + 1, Len(admitted))
           /\ Len(admitted) - f <= limit
           /\ \A k \in 1..f : admitted[k] <= now - window
    BY <1>4 DEF WindowInv, LocalWindow
  <2>2. \A k \in 1..f : admitted[k] <= now' - window
    BY <1>1, <1>2, <2>1, LimitsAssumption DEF WindowInv
  <2> QED  BY <1>1, <2>1, <2>2 DEF LocalWindow
<1>5. ASSUME redis_url PROVE RedisWindows'
  <2>1. PICK i, j \in 0..Len(admitted) :
           /\ i <= j /\ j - i <= limit
           /\ Len(admitted) - j = IF counter < limit THEN counter ELSE limit
           /\ \A k \in 1..i : admitted[k] <= now - window
           /\ expires # Never => \A k \in 1..j : admitted[k] <= expires - window
    BY <1>5 DEF WindowInv, RedisWindows
  <2>2. \A k \in 1..i : admitted[k] <= now' - window
    BY <1>1, <1>2, <2>1, LimitsAssumption DEF WindowInv
  <2>3. CASE expires # Never /\ expires <= now'
    <3>1. counter' = 0 /\ expires' = Never
      BY <2>3 DEF Tick
    <3>2. \A k \in 1..j : admitted[k] <= now' - window
      BY <1>1, <1>2, <2>1, <2>3, LimitsAssumption DEF WindowInv
    <3>3. Len(admitted) \in 0..Len(admitted) /\ j <= Len(admitted) /\ Len(admitted) - j <= limit
          /\ Len(admitted) - Len(admitted) = 0 /\ 0 < limit
      BY <2>1, LimitsAssumption DEF WindowInv
    <3> QED  BY <1>1, <3>1, <3>2, <3>3 DEF RedisWindows, Never
  <2>4. CASE ~(expires # Never /\ expires <= now')
    <3>1. counter' = counter /\ expires' = expires
      BY <2>4 DEF Tick
    <3> QED  BY <1>1, <2>1, <2>2, <3>1 DEF RedisWindows, Never
  <2> QED  BY <2>3, <2>4
<1>6. \A k \in DOMAIN admitted' : admitted'[k] <= now'
  BY <1>1, <1>2 DEF WindowInv
<1> QED  BY <1>1, <1>3, <1>4, <1>5, <1>6 DEF WindowInv

\* EXPIRE comes after every call of the keys before.
LEMMA ExpireStep == ASSUME WindowInv, NEW c \in Checks, expire(c) PROVE WindowInv'
<1>1. /\ now' = now /\ redis_url' = redis_url /\ admitted' = admitted /\ hits' = hits
      /\ counter' = counter /\ expires' = now + window
  BY DEF expire
<1>2. LocalWindow => LocalWindow'
  BY <1>1 DEF LocalWindow
<1>3. ASSUME RedisWindows PROVE RedisWindows'
  <2>1. PICK i, j \in 0..Len(admitted) :
           /\ i <= j /\ j - i <= limit
           /\ Len(admitted) - j = IF counter < limit THEN counter ELSE limit
           /\ \A k \in 1..i : admitted[k] <= now - window
    BY <1>3 DEF RedisWindows
  <2>2. \A k \in 1..j : admitted[k] <= expires' - window
    <3>1. \A k \in 1..j : k \in DOMAIN admitted
      BY DEF WindowInv
    <3>2. expires' - window = now
      BY <1>1, LimitsAssumption DEF WindowInv
    <3> QED  BY <3>1, <3>2 DEF WindowInv
  <2> QED  BY <1>1, <2>1, <2>2 DEF RedisWindows
<1> QED  BY <1>1, <1>2, <1>3, LimitsAssumption DEF WindowInv

LEMMA WindowStep == WindowInv /\ [LimiterNext]_limiter => WindowInv'
<1> SUFFICES ASSUME WindowInv, [LimiterNext]_limiter PROVE WindowInv'
  OBVIOUS
<1>1. ASSUME UNCHANGED <<redis_url, now, hits, counter, expires, admitted>> PROVE WindowInv'
  BY <1>1 DEF WindowInv, LocalWindow, RedisWindows, Never
<1>2. ASSUME NEW c \in Checks, Stop(c) PROVE WindowInv'
  BY <1>1, <1>2 DEF Stop
<1>3. CASE UNCHANGED limiter
  BY <1>1, <1>3 DEF limiter
<1> QED  BY <1>2, <1>3, LocalStep, RedisStep, TickStep, ExpireStep DEF LimiterNext

\* Of the calls of any span of one window a process lets no more through than the
\* limit says, and Redis no more than twice that, though keys expire, and calls
\* stop, between the commands of others.
THEOREM AdmissionsAreBounded == LimiterSpec => []AdmissionsBounded
<1> QED  BY WindowInit, WindowStep, WindowBounds, PTL DEF LimiterSpec

=============================================================================
