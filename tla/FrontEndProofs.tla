-------------------------- MODULE FrontEndProofs --------------------------
(***************************************************************************)
(* The rate limiter: the bound on what it lets through, and that it lets a *)
(* client through that keeps to its rate, for every rate, burst, number of *)
(* clients and of threads.  Then what comes after it: cookies, for any     *)
(* number of clients and addresses, any lifetime and width of the clock,   *)
(* and any number of moves, restarts and delays; and that recursion        *)
(* happens only for clients that the access lists let recurse.             *)
(***************************************************************************)
EXTENDS FrontEnd, RateLimiter, TLAPS

(***************************************************************************)
(* What a client was given and what is left in its bucket is paid for by a *)
(* full bucket and the refill up to the reading applied last.  A purged    *)
(* client must be paid for without the full bucket it will get again.      *)
(***************************************************************************)
Paid(c) ==
    IF buckets[c] = NoBucket
    THEN TicksPerSecond * granted[c] <= Qps * (applied[c] + skew[c])
    ELSE /\ buckets[c].tokens + TicksPerSecond * granted[c]
              <= Full + Qps * (applied[c] + skew[c])
         /\ buckets[c].last = applied[c]

TypesInv ==
    /\ now \in Nat
    /\ buckets \in [Ips -> {NoBucket} \cup [tokens : Nat, last : Nat]]
    /\ call \in [Threads -> {NoCall} \cup [client : Ips, at : Nat]]
    /\ granted \in [Ips -> Nat]
    /\ applied \in [Ips -> Nat]
    /\ skew \in [Ips -> Nat]
    /\ \A t \in Threads : call[t] # NoCall => call[t].at <= now
    /\ \A c \in Ips : applied[c] <= now

CreditInv == TypesInv /\ \A c \in Ips : Paid(c)

(* A bucket is purged only after it would have been full again. *)
RefillsBeforePurge == Full <= Qps * (TicksPerSecond * PurgeAfter)

LEMMA FullType == Full \in Nat /\ Full >= TicksPerSecond
<1> DEFINE b == IF Burst < Qps THEN Qps ELSE Burst
<1>1. b \in Nat /\ b >= 1  BY RateLimiterAssumption
<1>2. TicksPerSecond \in Nat \ {0}  BY RateLimiterAssumption, Zenon
<1> HIDE DEF b
<1>3. TicksPerSecond * b \in Nat /\ TicksPerSecond * b >= TicksPerSecond
  BY <1>1, <1>2, SMTT(30)
<1> QED  BY <1>3, Zenon DEF Full, b

LEMMA Distributes ==
    ASSUME NEW q \in Nat, NEW x \in Nat, NEW y \in Nat
    PROVE  q * (x + y) = q * x + q * y /\ q * x \in Nat /\ q * y \in Nat
  BY SMTT(30)

LEMMA Monotone ==
    ASSUME NEW q \in Nat, NEW x \in Nat, NEW y \in Nat, x <= y
    PROVE  q * x <= q * y /\ q * x \in Nat /\ q * y \in Nat
  BY SMTT(30)

LEMMA WholeSeconds ==
    ASSUME NEW n \in Nat, NEW m \in Nat \ {0}, NEW p \in Nat, n \div m >= p
    PROVE  n >= m * p
<1>1. n \div m \in Nat /\ n % m \in 0..(m - 1)  OBVIOUS
<1>2. n = m * (n \div m) + (n % m)  BY <1>1, SMTT(30)
<1>3. m * p <= m * (n \div m)  BY <1>1, Monotone, Zenon
<1>4. m * p \in Nat /\ m * (n \div m) \in Nat  BY <1>1, SMTT(30)
<1> QED  BY <1>1, <1>2, <1>3, <1>4

LEMMA CreditInit == Init => CreditInv
<1> SUFFICES ASSUME Init PROVE CreditInv
  BY Zenon
<1>1. \A c \in Ips : Paid(c)
  BY RateLimiterAssumption DEF Init, Paid
<1> QED  BY <1>1 DEF Init, CreditInv, TypesInv

(* A purged client's bucket would be full: what it was given is paid for. *)
LEMMA PurgePaid ==
    ASSUME CreditInv, RefillsBeforePurge, NEW at \in Nat, NEW c \in Purged(at)
    PROVE  TicksPerSecond * granted[c] <= Qps * (at + skew[c])
<1> DEFINE b == buckets[c]
           w == TicksPerSecond * PurgeAfter
           g == TicksPerSecond * granted[c]
<1>1. c \in Ips /\ b # NoBucket /\ Since(at, b.last) \div TicksPerSecond >= PurgeAfter
  BY Zenon DEF Purged
<1>2. b \in [tokens : Nat, last : Nat] /\ granted[c] \in Nat /\ skew[c] \in Nat
      /\ applied[c] \in Nat
  BY <1>1, Zenon DEF CreditInv, TypesInv
<1>3. b.tokens + g <= Full + Qps * (b.last + skew[c])
  BY <1>1, Zenon DEF CreditInv, TypesInv, Paid
<1>4. Since(at, b.last) \in Nat  BY <1>2 DEF Since
<1>5. Since(at, b.last) >= w
  BY <1>1, <1>4, WholeSeconds, RateLimiterAssumption, Zenon
<1>6. w \in Nat \ {0} /\ g \in Nat /\ Qps \in Nat
  BY <1>2, RateLimiterAssumption, SMTT(30)
<1> HIDE DEF w, g, b
<1>7. at >= b.last + w
  BY <1>2, <1>4, <1>5, <1>6 DEF Since
<1>8. Qps * (w + (b.last + skew[c])) <= Qps * (at + skew[c])
  BY <1>2, <1>6, <1>7, Monotone
<1>9. Qps * (w + (b.last + skew[c])) = Qps * w + Qps * (b.last + skew[c])
  BY <1>2, <1>6, Distributes
<1>10. Full <= Qps * w  BY Zenon DEF RefillsBeforePurge, w
<1>11. /\ Qps * w \in Nat /\ Qps * (b.last + skew[c]) \in Nat
       /\ Qps * (at + skew[c]) \in Nat
  BY <1>2, <1>6, Distributes
<1> QED  BY <1>2, <1>3, <1>6, <1>8, <1>9, <1>10, <1>11, FullType DEF g

LEMMA AllowPays ==
    ASSUME CreditInv, RefillsBeforePurge, NEW t \in Threads, Allow(t)
    PROVE  \A d \in Ips : Paid(d)'
<1>0. call[t].client \in Ips /\ call[t].at \in Nat
  BY Zenon DEF Allow, CreditInv, TypesInv
<1>1. PICK c \in Ips, at \in Nat : call[t].client = c /\ call[t].at = at
  BY <1>0, Zenon
<1> DEFINE tokens == Refilled(c, at)
           paid(d) == TicksPerSecond * granted[d]
           time(d) == applied[d] + skew[d]
<1>2. \A d \in Ips : /\ granted[d] \in Nat /\ skew[d] \in Nat
                         /\ applied[d] \in Nat /\ paid(d) \in Nat
                         /\ Qps * time(d) \in Nat
  BY RateLimiterAssumption, SMTT(30) DEF CreditInv, TypesInv
<1>3. ASSUME NEW d \in Ips, d # c PROVE Paid(d)'
  <2>1. granted'[d] = granted[d] /\ skew'[d] = skew[d]
    BY <1>1, <1>3, Zenon DEF Allow, CreditInv, TypesInv
  <2>2. CASE d \in Purged(at)
    <3>1. buckets'[d] = NoBucket /\ applied'[d] = at
      BY <1>1, <1>3, <2>2, Zenon DEF Allow, CreditInv, TypesInv
    <3> QED  BY <1>1, <2>1, <2>2, <3>1, PurgePaid, Zenon DEF Paid
  <2>3. CASE d \notin Purged(at)
    <3>1. buckets'[d] = buckets[d] /\ applied'[d] = applied[d]
      BY <1>1, <1>3, <2>3, Zenon DEF Allow, CreditInv, TypesInv
    <3> QED  BY <2>1, <3>1, Zenon DEF Paid, CreditInv
  <2> QED  BY <2>2, <2>3, Zenon
<1>4. Paid(c)'
  <2>1. /\ buckets'[c] = [tokens |-> Spent(tokens), last |-> at]
        /\ applied'[c] = at
        /\ skew'[c] = skew[c] + Since(applied[c], at)
        /\ granted'[c] = IF tokens >= TicksPerSecond THEN granted[c] + 1 ELSE granted[c]
    BY <1>1, Zenon DEF Allow, CreditInv, TypesInv
  <2>2. /\ at + skew'[c] \in Nat /\ time(c) \in Nat
        /\ at + skew'[c] = time(c) + Since(at, applied[c])
        /\ Since(at, applied[c]) \in Nat
    BY <1>1, <1>2, <2>1 DEF Since
  <2>3. /\ Qps * (at + skew'[c]) = Qps * time(c) + Qps * Since(at, applied[c])
        /\ Qps * Since(at, applied[c]) \in Nat /\ Qps * (at + skew'[c]) \in Nat
    BY <2>2, <1>2, Distributes, RateLimiterAssumption
  <2>4. tokens \in Nat /\ tokens + paid(c) <= Full + Qps * (at + skew'[c])
    <3>1. CASE buckets[c] = NoBucket
      <4>1. tokens = Full  BY <3>1, Zenon DEF Refilled
      <4>2. paid(c) <= Qps * time(c)  BY <1>1, <3>1, Zenon DEF CreditInv, TypesInv, Paid
      <4> QED  BY <4>1, <4>2, <2>3, <1>1, <1>2, FullType
    <3>2. CASE c \in Purged(at)
      <4>1. tokens = Full  BY <3>2, Zenon DEF Refilled
      <4>2. paid(c) <= Qps * (at + skew[c])  BY <1>1, <3>2, PurgePaid, Zenon
      <4>3. Qps * (at + skew[c]) <= Qps * (at + skew'[c])
        <5>1. at + skew[c] \in Nat /\ at + skew[c] <= at + skew'[c]
          BY <1>1, <1>2, <2>1, <2>2 DEF Since
        <5> QED  BY <5>1, <2>2, Monotone, RateLimiterAssumption, Zenon
      <4>4. Qps * (at + skew[c]) \in Nat
        BY <1>1, <1>2, RateLimiterAssumption, Distributes
      <4> QED  BY <4>1, <4>2, <4>3, <4>4, <2>3, <1>1, <1>2, FullType
    <3>3. CASE buckets[c] # NoBucket /\ c \notin Purged(at)
      <4>1. tokens = Capped(buckets[c].tokens + Qps * Since(at, buckets[c].last))
        BY <3>3, Zenon DEF Refilled
      <4>2. /\ buckets[c].tokens \in Nat /\ buckets[c].last = applied[c]
            /\ buckets[c].tokens + paid(c) <= Full + Qps * time(c)
        BY <1>1, <3>3, Zenon DEF CreditInv, TypesInv, Paid
      <4>3. /\ tokens \in Nat
            /\ tokens <= buckets[c].tokens + Qps * Since(at, applied[c])
        BY <4>1, <4>2, <2>3, FullType DEF Capped
      <4> HIDE DEF tokens, paid, time
      <4> QED  BY <4>2, <4>3, <2>3, <1>1, <1>2, FullType
    <3> QED  BY <3>1, <3>2, <3>3, Zenon
  <2>5. Spent(tokens) + TicksPerSecond * granted'[c] = tokens + paid(c)
    <3>1. TicksPerSecond * (granted[c] + 1) = paid(c) + TicksPerSecond
      <4>1. TicksPerSecond * 1 = TicksPerSecond  BY RateLimiterAssumption
      <4> QED  BY <1>1, <1>2, <4>1, RateLimiterAssumption, Distributes
    <3> HIDE DEF tokens
    <3> QED  BY <3>1, <2>1, <2>4, <1>1, <1>2, RateLimiterAssumption DEF Spent
  <2>6. buckets'[c] # NoBucket
    <3>1. at # -1  BY <1>1
    <3> QED  BY <2>1, <3>1 DEF NoBucket
  <2> QED  BY <2>1, <2>4, <2>5, <2>6 DEF Paid
<1> QED  BY <1>3, <1>4, Zenon

LEMMA AllowKeepsTypes ==
    ASSUME TypesInv, NEW t \in Threads, Allow(t)
    PROVE  /\ buckets' \in [Ips -> {NoBucket} \cup [tokens : Nat, last : Nat]]
           /\ call' \in [Threads -> {NoCall} \cup [client : Ips, at : Nat]]
           /\ granted' \in [Ips -> Nat]
           /\ applied' \in [Ips -> Nat]
           /\ skew' \in [Ips -> Nat]
           /\ \A d \in Ips : applied'[d] <= now
<1>0. call[t].client \in Ips /\ call[t].at \in Nat /\ call[t].at <= now
  BY Zenon DEF Allow, TypesInv
<1>1. PICK c \in Ips, at \in Nat : call[t].client = c /\ call[t].at = at /\ at <= now
  BY <1>0, Zenon
<1>2. Spent(Refilled(c, at)) \in Nat
  <2>1. ASSUME buckets[c] # NoBucket
        PROVE  buckets[c].tokens + Qps * Since(at, buckets[c].last) \in Nat
    <3>1. buckets[c].tokens \in Nat /\ buckets[c].last \in Nat
      BY <2>1, Zenon DEF TypesInv
    <3>2. Since(at, buckets[c].last) \in Nat  BY <3>1 DEF Since
    <3> QED  BY <3>1, <3>2, RateLimiterAssumption, Distributes
  <2>2. Refilled(c, at) \in Nat  BY <2>1, FullType, Zenon DEF Refilled, Capped
  <2> QED  BY <2>2, RateLimiterAssumption DEF Spent
<1>3. buckets' \in [Ips -> {NoBucket} \cup [tokens : Nat, last : Nat]]
  BY <1>1, <1>2, Zenon DEF Allow, TypesInv
<1>4. call' \in [Threads -> {NoCall} \cup [client : Ips, at : Nat]]
  BY Zenon DEF Allow, TypesInv
<1>5. granted' \in [Ips -> Nat]
  BY <1>1 DEF Allow, TypesInv
<1>6. applied' \in [Ips -> Nat] /\ \A d \in Ips : applied'[d] <= now
  BY <1>1, Zenon DEF Allow, TypesInv
<1>7. skew' \in [Ips -> Nat]
  <2>1. Since(applied[c], at) \in Nat  BY <1>1 DEF Since, TypesInv
  <2> QED  BY <1>1, <2>1 DEF Allow, TypesInv
<1> QED  BY <1>3, <1>4, <1>5, <1>6, <1>7, Zenon

LEMMA TypesStep ==
    ASSUME TypesInv, [Next]_vars
    PROVE  TypesInv'
<1>1. CASE Tick
  BY <1>1 DEF Tick, TypesInv
<1>2. ASSUME NEW t \in Threads, NEW c \in Ips, BeginAllow(t, c)
      PROVE  TypesInv'
  <2>1. [client |-> c, at |-> now] \in [client : Ips, at : Nat]
    BY Zenon DEF TypesInv
  <2> QED  BY <1>2, <2>1 DEF BeginAllow, TypesInv
<1>3. ASSUME NEW t \in Threads, Allow(t) PROVE TypesInv'
  <2>1. now' = now /\ \A u \in Threads : call'[u] # NoCall => call'[u].at <= now
    BY <1>3, Zenon DEF Allow, TypesInv
  <2> QED  BY <1>3, <2>1, AllowKeepsTypes, Zenon DEF TypesInv
<1>4. CASE UNCHANGED vars
  BY <1>4, Zenon DEF vars, TypesInv
<1> QED  BY <1>1, <1>2, <1>3, <1>4, Zenon DEF Next

LEMMA CreditStep ==
    ASSUME RefillsBeforePurge, CreditInv, [Next]_vars
    PROVE  CreditInv'
<1>0. TypesInv'
  BY TypesStep, Zenon DEF CreditInv
<1>1. CASE UNCHANGED <<buckets, granted, applied, skew>>
  BY <1>0, <1>1, Zenon DEF CreditInv, Paid
<1>2. ASSUME NEW t \in Threads, Allow(t) PROVE CreditInv'
  BY <1>0, <1>2, AllowPays, Zenon DEF CreditInv
<1> QED  BY <1>1, <1>2, Zenon DEF Next, Tick, BeginAllow, vars

LEMMA PaidIsBounded == CreditInv => CreditBounded
<1> SUFFICES ASSUME CreditInv, NEW c \in Ips
             PROVE  TicksPerSecond * granted[c] <= Full + Qps * (now + skew[c])
  BY Zenon DEF CreditBounded
<1>1. /\ granted[c] \in Nat /\ applied[c] \in Nat /\ skew[c] \in Nat /\ now \in Nat
      /\ applied[c] + skew[c] <= now + skew[c]
      /\ TicksPerSecond * granted[c] \in Nat
  BY RateLimiterAssumption, SMTT(30) DEF CreditInv, TypesInv
<1>2. /\ Qps * (applied[c] + skew[c]) <= Qps * (now + skew[c])
      /\ Qps * (applied[c] + skew[c]) \in Nat /\ Qps * (now + skew[c]) \in Nat
  <2>1. applied[c] + skew[c] \in Nat /\ now + skew[c] \in Nat  BY <1>1
  <2> QED  BY <1>1, <2>1, Monotone, RateLimiterAssumption, Zenon
<1>3. CASE buckets[c] = NoBucket
  <2>1. TicksPerSecond * granted[c] <= Qps * (applied[c] + skew[c])
    BY <1>3, Zenon DEF CreditInv, TypesInv, Paid
  <2> QED  BY <2>1, <1>1, <1>2, FullType
<1>4. CASE buckets[c] # NoBucket
  <2>1. /\ buckets[c].tokens \in Nat
        /\ buckets[c].tokens + TicksPerSecond * granted[c]
              <= Full + Qps * (applied[c] + skew[c])
    BY <1>4, Zenon DEF CreditInv, TypesInv, Paid
  <2> QED  BY <2>1, <1>1, <1>2, FullType
<1> QED  BY <1>3, <1>4, Zenon

(***************************************************************************)
(* For every rate, burst, number of clients, threads and purge threshold:  *)
(* if a bucket is full again before it can be purged, the limiter lets a   *)
(* client through at most as often as CreditBounded says.                  *)
(***************************************************************************)
THEOREM CreditHolds == RefillsBeforePurge => (Spec => []CreditBounded)
<1> SUFFICES ASSUME RefillsBeforePurge PROVE Spec => []CreditBounded
  BY Zenon
<1>1. Init => CreditInv  BY CreditInit, Zenon
<1>2. CreditInv /\ [Next]_vars => CreditInv'  BY CreditStep, Zenon
<1>3. CreditInv => CreditBounded  BY PaidIsBounded, Zenon
<1> QED  BY <1>1, <1>2, <1>3, PTL DEF Spec

----------------------------------------------------------------------------
(* A bucket left alone for a second holds a token, purged or not. *)
LEMMA SecondRefills ==
    ASSUME TypesInv, NEW c \in Ips, NEW at \in Nat, buckets[c] # NoBucket,
           at >= buckets[c].last + TicksPerSecond
    PROVE  Refilled(c, at) >= TicksPerSecond
<1>1. CASE c \in Purged(at)
  BY <1>1, FullType, Zenon DEF Refilled
<1>2. CASE c \notin Purged(at)
  <2>1. buckets[c].tokens \in Nat /\ buckets[c].last \in Nat
    BY Zenon DEF TypesInv
  <2>2. Since(at, buckets[c].last) \in Nat /\ Since(at, buckets[c].last) >= TicksPerSecond
    BY <2>1, RateLimiterAssumption DEF Since
  <2>3. /\ Qps * Since(at, buckets[c].last) \in Nat
        /\ Qps * Since(at, buckets[c].last) >= TicksPerSecond
    <3> DEFINE s == Since(at, buckets[c].last)
    <3>1. s \in Nat /\ s >= TicksPerSecond /\ Qps \in Nat \ {0}
      BY <2>2, RateLimiterAssumption, Zenon
    <3> HIDE DEF s
    <3>2. Qps * s \in Nat /\ Qps * s >= s
      BY <3>1, SMTT(30)
    <3> QED  BY <3>1, <3>2, RateLimiterAssumption DEF s
  <2> QED  BY <1>2, <2>1, <2>3, FullType, RateLimiterAssumption DEF Refilled, Capped
<1> QED  BY <1>1, <1>2, Zenon

LEMMA QuietAllow ==
    ASSUME TypesInv, [Next]_vars, NEW c \in Ips,
           buckets[c] # NoBucket, buckets'[c] # NoBucket,
           buckets'[c].last >= buckets[c].last + TicksPerSecond
    PROVE  granted'[c] = granted[c] + 1
<1>0. buckets[c].last \in Nat /\ TicksPerSecond \in Nat \ {0}
  BY RateLimiterAssumption, Zenon DEF TypesInv
<1>1. buckets'[c].last # buckets[c].last
  BY <1>0
<1>2. PICK t \in Threads : Allow(t)
  BY <1>1, Zenon DEF Next, Tick, BeginAllow, vars
<1>3. call[t].client \in Ips /\ call[t].at \in Nat
  BY <1>2, Zenon DEF Allow, TypesInv
<1>4. call[t].client = c
  BY <1>1, <1>2, Zenon DEF Allow
<1>5. buckets'[c].last = call[t].at
  BY <1>2, <1>4, Zenon DEF Allow
<1>6. Refilled(c, call[t].at) >= TicksPerSecond
  BY <1>3, <1>5, SecondRefills, Zenon
<1> QED  BY <1>2, <1>4, <1>6, Zenon DEF Allow, TypesInv

(***************************************************************************)
(* A client that kept quiet for a second is let through, for every rate,   *)
(* burst, number of clients and of threads, and wherever the purge strikes *)
(* (RateLimiter::allow refills before it looks at the tokens).             *)
(***************************************************************************)
THEOREM QuietAlwaysAdmitted == Spec => QuietClientAdmitted
<1>1. Init => TypesInv
  BY DEF Init, TypesInv
<1>2. TypesInv /\ [Next]_vars => TypesInv'
  BY TypesStep, Zenon
<1>3. TypesInv /\ [Next]_vars =>
        [\A c \in Ips :
            /\ buckets[c] # NoBucket /\ buckets'[c] # NoBucket
            /\ buckets'[c].last >= buckets[c].last + TicksPerSecond
            => granted'[c] = granted[c] + 1]_vars
  BY QuietAllow, Zenon
<1> QED  BY <1>1, <1>2, <1>3, PTL DEF Spec, QuietClientAdmitted

-----------------------------------------------------------------------------
(***************************************************************************)
(* Ages on a clock that wraps around.                                      *)
(***************************************************************************)
LEMMA ModOfSmall ==
    ASSUME NEW m \in Nat \ {0}, NEW x \in Int, -m < x, x < m
    PROVE  x % m = IF x >= 0 THEN x ELSE x + m
  OBVIOUS

LEMMA Division ==
    ASSUME NEW m \in Nat \ {0}, NEW a \in Nat
    PROVE  /\ a \div m \in Int
           /\ a % m \in 0..(m - 1)
           /\ a = m * (a \div m) + (a % m)
<1>1. a % m \in 0..(m - 1)  OBVIOUS
<1>2. a \div m \in Int  OBVIOUS
<1>3. a = m * (a \div m) + (a % m)  BY <1>1, <1>2, SMTT(30)
<1> QED  BY <1>1, <1>2, <1>3, Zenon

(* A multiple of m between -m and 2 * m is 0 or m. *)
LEMMA NearMultiple ==
    ASSUME NEW m \in Nat \ {0}, NEW q \in Int, -m < m * q, m * q < 2 * m
    PROVE  m * q \in {0, m}
<1>1. CASE q >= 2
  <2>1. m * q >= 2 * m  BY <1>1, SMTT(30)
  <2> QED  BY <2>1
<1>2. CASE q <= -1
  <2>1. m * q <= -m  BY <1>2, SMTT(30)
  <2> QED  BY <2>1
<1>3. CASE q \in {0, 1}  BY <1>3
<1> QED  BY <1>1, <1>2, <1>3

(* The age of what was made at time t is exact, as long as it is less than *)
(* the range of the clock.                                                 *)
LEMMA AgeExact ==
    ASSUME NEW t \in Nat, NEW d \in Nat, d < TimeSpace
    PROVE  Age((t + d) % TimeSpace, t % TimeSpace) = d
<1> DEFINE m == TimeSpace
           r == t % m
           s == (t + d) % m
           w == ((t + d) \div m) - (t \div m)
           x == s - r
<1>0. m \in Nat \ {0}  BY LifetimeAssumption, TimeSpaceAssumption
<1>1. t \div m \in Int /\ r \in 0..(m - 1) /\ t = m * (t \div m) + r  BY <1>0, Division, Zenon
<1>2. /\ (t + d) \div m \in Int /\ s \in 0..(m - 1)
      /\ t + d = m * ((t + d) \div m) + s
  <2>1. t + d \in Nat  OBVIOUS
  <2> QED  BY <1>0, <2>1, Division, Zenon
<1>3. w \in Int /\ m * w = m * ((t + d) \div m) - m * (t \div m)
  BY <1>0, <1>1, <1>2, SMTT(30)
<1>a. Age((t + d) % TimeSpace, t % TimeSpace) = x % m  BY Zenon DEF Age
<1> HIDE DEF r, s, w
<1>4. m * w = d - x /\ m * w \in Int  BY <1>0, <1>1, <1>2, <1>3
<1>5. x \in Int /\ -m < x /\ x < m  BY <1>0, <1>1, <1>2
<1>6. d < m  BY Zenon
<1> HIDE DEF m, x
<1>7. -m < m * w /\ m * w < 2 * m  BY <1>0, <1>4, <1>5, <1>6
<1>8. m * w \in {0, m}  BY <1>0, <1>3, <1>7, NearMultiple, Zenon
<1>9. x \in {d, d - m}  BY <1>0, <1>4, <1>5, <1>8
<1>10. x % m = IF x >= 0 THEN x ELSE x + m  BY <1>0, <1>5, ModOfSmall, Zenon
<1> QED  BY <1>a, <1>0, <1>6, <1>9, <1>10

(* When a cookie with a server part is accepted. *)
LEMMA AcceptedIf ==
    ASSUME NEW key, NEW cookie, NEW ip, NEW at,
           cookie.len = 24, cookie.hash = Hash(key, cookie.client, ip, cookie.ts),
           Age(at, cookie.ts) \in Nat, Age(at, cookie.ts) <= 2 * Lifetime
    PROVE  Accepted(key, cookie, ip, at)
<1>1. ~(Age(at, cookie.ts) > 2 * Lifetime)  BY LifetimeAssumption
<1> QED  BY <1>1 DEF Accepted, Verify

LEMMA OnlyAcceptedIf ==
    ASSUME NEW key, NEW cookie, NEW ip, NEW at, Accepted(key, cookie, ip, at),
           cookie.len \in {0, 8, 24}
    PROVE  cookie.len = 24 /\ cookie.hash = Hash(key, cookie.client, ip, cookie.ts)
  BY Zenon DEF Accepted, Verify

(* A cookie that was built for an address is accepted from it for twice    *)
(* its lifetime, wherever the clock wraps around.                          *)
THEOREM CookieLifetime ==
    ASSUME NEW key, NEW c, NEW ip, NEW t \in Nat, NEW d \in Nat, d <= 2 * Lifetime
    PROVE  Accepted(key, Build(key, c, ip, t % TimeSpace), ip, (t + d) % TimeSpace)
<1> DEFINE cookie == Build(key, c, ip, t % TimeSpace)
           at == (t + d) % TimeSpace
<1>1. d < TimeSpace  BY LifetimeAssumption, TimeSpaceAssumption
<1>2. Age(at, t % TimeSpace) = d  BY <1>1, AgeExact, Zenon
<1>3. /\ cookie.len = 24 /\ cookie.ts = t % TimeSpace
      /\ cookie.hash = Hash(key, cookie.client, ip, cookie.ts)
  BY Zenon DEF Build
<1> HIDE DEF cookie, at
<1>4. Accepted(key, cookie, ip, at)  BY <1>2, <1>3, AcceptedIf, Zenon
<1> QED  BY <1>4, Zenon DEF cookie, at
(***************************************************************************)
(* The inductive invariant.  Every cookie with a server part, wherever it  *)
(* is, was built by some process of the server for the address it was sent *)
(* to, at a time that has passed.                                          *)
(***************************************************************************)
GoodOption(o) ==
    /\ o.cookie.len \in {0, 8, 24}
    /\ o.cookie.len = 24 =>
          /\ o.at \in Nat /\ o.at <= clock
          /\ o.cookie.ts = o.at % TimeSpace
          /\ \E k : o.cookie.hash = Hash(k, o.cookie.client, o.to, o.cookie.ts)

ClientFields == {"addr", "jar", "ask", "id", "via"}

CookieInv ==
    /\ clock \in Nat
    /\ DOMAIN client = Clients
    /\ \A c \in Clients : DOMAIN client[c] = ClientFields /\ GoodOption(client[c].jar)
    /\ \A m \in inbox : GoodOption(m.option)
    /\ \A t \in tasks : GoodOption(t.m.option)
    /\ \A r \in replies : GoodOption(r.option)
    /\ VerifiedOnly

LEMMA NoOptionGood == GoodOption(NoOption)
  BY DEF GoodOption, NoOption, NoCookie

(* What a client sends is the cookie it keeps, or none. *)
LEMMA MessageGood ==
    ASSUME NEW k, GoodOption(k.jar)
    PROVE  GoodOption(Message(k).option)
  BY NoOptionGood, Zenon DEF Message

(* A cookie the server attaches is good. *)
LEMMA AttachedGood ==
    ASSUME NEW m, clock \in Nat
    PROVE  GoodOption(Attached(m))
<1> DEFINE b == Build(secret, m.option.cookie.client, m.src, Now)
           o == Option(b, m.src)
<1>1. /\ b.len = 24 /\ b.ts = Now
      /\ b.hash = Hash(secret, b.client, m.src, b.ts)
  BY Zenon DEF Build
<1>2. o.cookie = b /\ o.to = m.src /\ o.at = clock  BY Zenon DEF Option
<1> HIDE DEF b
<1>3. GoodOption(o)
  <2>1. o.at \in Nat /\ o.at <= clock  BY <1>2
  <2>2. o.cookie.ts = o.at % TimeSpace  BY <1>1, <1>2, Zenon DEF Now
  <2>3. o.cookie.hash = Hash(secret, o.cookie.client, o.to, o.cookie.ts)  BY <1>1, <1>2, Zenon
  <2> HIDE DEF o
  <2> QED  BY <1>1, <1>2, <2>1, <2>2, <2>3, Zenon DEF GoodOption
<1> QED  BY <1>3, NoOptionGood, Zenon DEF Attached, b

(* A query by UDP that is not challenged shows a cookie given to its source. *)
LEMMA UnchallengedVerified ==
    ASSUME NEW m, GoodOption(m.option), ~MustChallenge(m), requireCookie, m.via = "udp"
    PROVE  GivenTo(m.option, m.src)
<1>1. Accepted(secret, m.option.cookie, m.src, Now)  BY Zenon DEF MustChallenge
<1>2. m.option.cookie.len \in {0, 8, 24}  BY Zenon DEF GoodOption
<1>3. /\ m.option.cookie.len = 24
      /\ m.option.cookie.hash = Hash(secret, m.option.cookie.client, m.src, m.option.cookie.ts)
  BY <1>1, <1>2, OnlyAcceptedIf
<1>4. PICK k : m.option.cookie.hash = Hash(k, m.option.cookie.client, m.option.to, m.option.cookie.ts)
  BY <1>3, Zenon DEF GoodOption
<1> QED  BY <1>3, <1>4 DEF GivenTo, Hash

(* What Send puts on its way. *)
LEMMA SendAdds ==
    ASSUME NEW m, NEW resp, NEW option, Send(m, resp, option)
    PROVE  \E r : /\ replies' = replies \cup {r}
                  /\ r.option = option /\ r.shown = m.option
                  /\ r.via = m.via /\ r.dst = m.src
                  /\ r.resp.from \in {resp.from, "none"}
<1> DEFINE q == Reply(m, resp, option)
           u == Truncated(q)
<1>1. /\ q.option = option /\ q.shown = m.option /\ q.via = m.via /\ q.dst = m.src
      /\ q.resp = resp
  BY Zenon DEF Reply
<1>2. /\ u.option = option /\ u.shown = m.option /\ u.via = m.via /\ u.dst = m.src
      /\ u.resp.from = "none"
  BY Zenon DEF Truncated, Reply, Blank
<1>3. replies' = replies \cup {IF Fits(q.resp, m) THEN q ELSE u}  BY Zenon DEF Send
<1> HIDE DEF q, u
<1>4. CASE Fits(q.resp, m)
  <2> WITNESS q
  <2> QED  BY <1>1, <1>3, <1>4, Zenon
<1>5. CASE ~Fits(q.resp, m)
  <2> WITNESS u
  <2> QED  BY <1>2, <1>3, <1>5, Zenon
<1> QED  BY <1>4, <1>5, Zenon

(* As time passes a good option stays good. *)
LEMMA StaysGood ==
    ASSUME NEW o, GoodOption(o), clock \in Nat, clock' \in Nat, clock <= clock'
    PROVE  GoodOption(o)'
  BY DEF GoodOption
LEMMA CookieInit == FrontInit => CookieInv
<1> SUFFICES ASSUME FrontInit PROVE CookieInv  BY Zenon
<1>1. clock \in Nat  BY ClockAssumption, Zenon DEF FrontInit
<1>2. DOMAIN client = Clients  BY Zenon DEF FrontInit
<1>3. ASSUME NEW c \in Clients
      PROVE  DOMAIN client[c] = ClientFields /\ GoodOption(client[c].jar)
  <2>1. client[c] = [addr |-> Home[c], jar |-> Option(ClientHalf(c), Home[c]),
                     ask |-> NoAsk, id |-> 0, via |-> "udp"]
    BY Zenon DEF FrontInit
  <2>2. client[c].jar.cookie.len = 8  BY <2>1, SMTT(60) DEF Option, ClientHalf
  <2>3. GoodOption(client[c].jar)  BY <2>2 DEF GoodOption
  <2> QED  BY <2>1, <2>3, Zenon DEF ClientFields
<1> QED  BY <1>1, <1>2, <1>3, Zenon DEF FrontInit, CookieInv, VerifiedOnly

(* The server's steps take a message and leave the clients alone.          *)
ServerStep ==
    /\ UNCHANGED <<requireCookie, clock, client>>
    /\ inbox' \subseteq inbox

LEMMA KeptGood ==
    ASSUME CookieInv, ServerStep, VerifiedOnly',
           \A t \in tasks' : GoodOption(t.m.option), \A r \in replies' : GoodOption(r.option)
    PROVE  CookieInv'
<1>1. ASSUME NEW o, GoodOption(o) PROVE GoodOption(o)'  BY <1>1, Zenon DEF GoodOption, ServerStep
<1>2. (clock \in Nat /\ DOMAIN client = Clients)'  BY Zenon DEF CookieInv, ServerStep
<1>3. ASSUME NEW c \in Clients
      PROVE  (DOMAIN client[c] = ClientFields /\ GoodOption(client[c].jar))'
  <2>1. client' = client  BY Zenon DEF ServerStep
  <2>2. DOMAIN client[c] = ClientFields /\ GoodOption(client[c].jar)  BY Zenon DEF CookieInv
  <2>3. GoodOption(client[c].jar)'  BY <2>1, <2>2, Zenon DEF GoodOption, ServerStep
  <2> QED  BY <2>1, <2>2, <2>3, Zenon
<1>4. ASSUME NEW m \in inbox' PROVE GoodOption(m.option)'  BY <1>1, Zenon DEF CookieInv, ServerStep
<1>5. ASSUME NEW t \in tasks' PROVE GoodOption(t.m.option)'  BY <1>1, Zenon
<1>6. ASSUME NEW r \in replies' PROVE GoodOption(r.option)'  BY <1>1, Zenon
<1> QED  BY <1>2, <1>3, <1>4, <1>5, <1>6, Zenon DEF CookieInv

(* A step that answers m, keeps the invariant if the answer does. *)
LEMMA AnswerStep ==
    ASSUME CookieInv, ServerStep, tasks' \subseteq tasks, NEW m, NEW resp, NEW option,
           Send(m, resp, option), GoodOption(option),
           resp.from = "none" \/ (requireCookie /\ m.via = "udp" => GivenTo(m.option, m.src))
    PROVE  CookieInv'
<1>1. PICK r : /\ replies' = replies \cup {r}
               /\ r.option = option /\ r.shown = m.option
               /\ r.via = m.via /\ r.dst = m.src
               /\ r.resp.from \in {resp.from, "none"}
  BY SendAdds
<1>2. VerifiedOnly'
  <2>1. ASSUME requireCookie, NEW t \in tasks', t.m.via = "udp"
        PROVE  GivenTo(t.m.option, t.m.src)
    BY <2>1, Zenon DEF CookieInv, VerifiedOnly
  <2>2. ASSUME requireCookie, NEW q \in replies', q.via = "udp", q.resp.from # "none"
        PROVE  GivenTo(q.shown, q.dst)
    <3>1. CASE q \in replies  BY <2>2, <3>1, Zenon DEF CookieInv, VerifiedOnly
    <3>2. CASE q = r  BY <1>1, <2>2, <3>2, Zenon
    <3> QED  BY <1>1, <3>1, <3>2, Zenon
  <2> QED  BY <2>1, <2>2, Zenon DEF VerifiedOnly, GivenTo, ServerStep
<1>3. ASSUME NEW q \in replies' PROVE GoodOption(q.option)
  BY <1>1, Zenon DEF CookieInv
<1>4. ASSUME NEW t \in tasks' PROVE GoodOption(t.m.option)  BY Zenon DEF CookieInv
<1> QED  BY <1>2, <1>3, <1>4, KeptGood, Zenon

(* Finish is such a step, for a query that may be answered. *)
LEMMA FinishStep ==
    ASSUME CookieInv, ServerStep, tasks' \subseteq tasks, NEW m, NEW resp,
           Finish(m, resp), requireCookie /\ m.via = "udp" => GivenTo(m.option, m.src)
    PROVE  CookieInv'
<1>1. GoodOption(Attached(m))  BY AttachedGood, Zenon DEF CookieInv
<1> QED  BY <1>1, AnswerStep, Zenon DEF Finish

LEMMA ServeStep ==
    ASSUME CookieInv, Serve
    PROVE  CookieInv'
<1>1. ASSUME NEW m \in inbox, Unparseable(m) PROVE CookieInv'
  <2>1. ServerStep /\ tasks' \subseteq tasks  BY <1>1, Zenon DEF Unparseable, Take, ServerStep
  <2>2. Rcode("FORMERR").from = "none"  BY Zenon DEF Rcode, Blank
  <2> QED  BY <1>1, <2>1, <2>2, AnswerStep, NoOptionGood, Zenon DEF Unparseable
<1>2. ASSUME NEW m \in inbox, Notified(m) PROVE CookieInv'
  <2> DEFINE resp == Rcode(IF Asks[m.ask].name \in Secondaries THEN "NOERROR" ELSE "REFUSED")
  <2>1. ServerStep /\ tasks' \subseteq tasks  BY <1>2, Zenon DEF Notified, Take, ServerStep
  <2>2. resp.from = "none"  BY Zenon DEF Rcode, Blank
  <2>3. Send(m, resp, NoOption)  BY <1>2, Zenon DEF Notified
  <2> HIDE DEF resp
  <2> QED  BY <2>1, <2>2, <2>3, AnswerStep, NoOptionGood, Zenon
<1>3. ASSUME NEW m \in inbox, Challenged(m) PROVE CookieInv'
  <2>1. ServerStep /\ tasks' \subseteq tasks  BY <1>3, Zenon DEF Challenged, Take, ServerStep
  <2>2. Rcode("BADCOOKIE").from = "none"  BY Zenon DEF Rcode, Blank
  <2>3. GoodOption(ChallengeCookie(m))  BY AttachedGood, Zenon DEF ChallengeCookie, CookieInv
  <2> QED  BY <1>3, <2>1, <2>2, <2>3, AnswerStep, Zenon DEF Challenged
<1>4. ASSUME NEW m \in inbox, Answered(m) PROVE CookieInv'
  <2>1. ServerStep  BY <1>4, Zenon DEF Answered, Take, ServerStep
  <2>2. GoodOption(m.option)  BY Zenon DEF CookieInv
  <2>3. requireCookie /\ m.via = "udp" => GivenTo(m.option, m.src)
    BY <1>4, <2>2, UnchallengedVerified, Zenon DEF Answered
  <2>4. PICK out : IF out.pending
                   THEN /\ tasks' = tasks \cup {[m |-> m, resp |-> out.resp, target |-> out.target,
                                                 append |-> out.append]}
                        /\ UNCHANGED replies
                   ELSE Finish(m, out.resp) /\ UNCHANGED tasks
    BY <1>4, Zenon DEF Answered
  <2>5. CASE out.pending
    <3> DEFINE new == [m |-> m, resp |-> out.resp, target |-> out.target, append |-> out.append]
    <3>1. tasks' = tasks \cup {new} /\ replies' = replies /\ new.m = m  BY <2>4, <2>5, Zenon
    <3> HIDE DEF new
    <3>2. VerifiedOnly'
      BY <2>1, <2>3, <3>1, Zenon DEF VerifiedOnly, CookieInv, ServerStep, GivenTo
    <3>3. ASSUME NEW t \in tasks' PROVE GoodOption(t.m.option)
      <4>1. CASE t \in tasks  BY <4>1, Zenon DEF CookieInv
      <4>2. CASE t = new  BY <2>2, <3>1, <4>2, Zenon
      <4> QED  BY <3>1, <4>1, <4>2, Zenon
    <3>4. ASSUME NEW r \in replies' PROVE GoodOption(r.option)  BY <3>1, Zenon DEF CookieInv
    <3> QED  BY <2>1, <3>2, <3>3, <3>4, KeptGood, Zenon
  <2>6. CASE ~out.pending
    BY <2>1, <2>3, <2>4, <2>6, FinishStep, Zenon
  <2> QED  BY <2>5, <2>6, Zenon
<1>5. ASSUME NEW t \in tasks, PendingDone(t) PROVE CookieInv'
  <2>1. ServerStep /\ tasks' \subseteq tasks  BY <1>5, Zenon DEF PendingDone, ServerStep
  <2>2. requireCookie /\ t.m.via = "udp" => GivenTo(t.m.option, t.m.src)
    BY Zenon DEF CookieInv, VerifiedOnly
  <2>3. \E resp : Finish(t.m, resp)  BY <1>5, Zenon DEF PendingDone
  <2> QED  BY <2>1, <2>2, <2>3, FinishStep, Zenon
<1> QED  BY <1>1, <1>2, <1>3, <1>4, <1>5, Zenon DEF Serve, Worker
(* A step in which messages are at most lost, tasks dropped and time       *)
(* passes, and the clients keep their cookies.                             *)
LEMMA QuietStep ==
    ASSUME CookieInv, UNCHANGED requireCookie, clock' \in Nat, clock <= clock',
           DOMAIN client' = Clients,
           \A c \in Clients : DOMAIN client'[c] = ClientFields /\ client'[c].jar = client[c].jar,
           inbox' \subseteq inbox, tasks' \subseteq tasks, replies' \subseteq replies
    PROVE  CookieInv'
<1>1. ASSUME NEW c \in Clients PROVE GoodOption(client[c].jar)'
  <2>1. \A o : o = client[c].jar => GoodOption(o)'  BY StaysGood, Zenon DEF CookieInv
  <2> QED  BY <2>1, Zenon
<1>2. \A m \in inbox' : GoodOption(m.option)'  BY StaysGood, Zenon DEF CookieInv
<1>3. \A t \in tasks' : GoodOption(t.m.option)'  BY StaysGood, Zenon DEF CookieInv
<1>4. \A r \in replies' : GoodOption(r.option)'  BY StaysGood, Zenon DEF CookieInv
<1>5. VerifiedOnly'  BY Zenon DEF CookieInv, VerifiedOnly, GivenTo
<1> QED  BY <1>1, <1>2, <1>3, <1>4, <1>5, Zenon DEF CookieInv

(* A step in which client c sends what it has to send, with a good cookie. *)
LEMMA SendingStep ==
    ASSUME CookieInv, UNCHANGED <<requireCookie, clock, tasks>>, replies' \subseteq replies,
           NEW c \in Clients, DOMAIN client' = Clients,
           \A b \in Clients : DOMAIN client'[b] = ClientFields,
           \A b \in Clients \ {c} : client'[b].jar = client[b].jar,
           GoodOption(client'[c].jar),
           inbox' \in {inbox, inbox \cup {Message(client'[c])}}
    PROVE  CookieInv'
<1>1. GoodOption(Message(client'[c]).option)  BY MessageGood, Zenon
<1>2. \A m \in inbox' : GoodOption(m.option)  BY <1>1, Zenon DEF CookieInv
<1>3. \A b \in Clients : GoodOption(client'[b].jar)  BY Zenon DEF CookieInv
<1>4. VerifiedOnly'  BY Zenon DEF CookieInv, VerifiedOnly, GivenTo
<1> QED  BY <1>2, <1>3, <1>4, ZenonT(60) DEF CookieInv, GoodOption

LEMMA ClientStep ==
    ASSUME CookieInv, NEW c \in Clients,
           \/ Resend(c)
           \/ \E a \in DOMAIN Asks : Ask(c, a)
           \/ \E ip \in Addresses : Move(c, ip)
           \/ \E r \in replies : GetReply(c, r)
    PROVE  CookieInv'
<1> USE DEF ClientFields
<1>0. /\ DOMAIN client = Clients /\ \A b \in Clients : DOMAIN client[b] = ClientFields
      /\ GoodOption(client[c].jar) /\ clock \in Nat
  BY Zenon DEF CookieInv
<1>1. CASE Resend(c)
  <2>1. client' = client /\ inbox' = inbox \cup {Message(client'[c])}  BY <1>1, Zenon DEF Resend
  <2>2. UNCHANGED <<requireCookie, clock, tasks, replies>>  BY <1>1, Zenon DEF Resend
  <2> QED  BY <1>0, <2>1, <2>2, SendingStep, Zenon
<1>2. ASSUME NEW a \in DOMAIN Asks, Ask(c, a) PROVE CookieInv'
  <2>1. /\ client' = [client EXCEPT ![c].ask = a, ![c].id = asked', ![c].via = "udp"]
        /\ inbox' = inbox \cup {Message(client'[c])}
        /\ UNCHANGED <<requireCookie, clock, tasks, replies>>
    BY <1>2, Zenon DEF Ask
  <2>2. /\ DOMAIN client' = Clients /\ \A b \in Clients : DOMAIN client'[b] = ClientFields
        /\ \A b \in Clients : client'[b].jar = client[b].jar
    BY <1>0, <2>1, Zenon
  <2> QED  BY <1>0, <2>1, <2>2, SendingStep, Zenon
<1>3. ASSUME NEW ip \in Addresses, Move(c, ip) PROVE CookieInv'
  <2>1. /\ client' = [client EXCEPT ![c].addr = ip]
        /\ UNCHANGED <<requireCookie, clock, tasks, replies, inbox>>
    BY <1>3, Zenon DEF Move
  <2>2. /\ DOMAIN client' = Clients /\ \A b \in Clients : DOMAIN client'[b] = ClientFields
        /\ \A b \in Clients : client'[b].jar = client[b].jar
    BY <1>0, <2>1, Zenon
  <2> QED  BY <1>0, <2>1, <2>2, QuietStep
<1>4. ASSUME NEW r \in replies, GetReply(c, r) PROVE CookieInv'
  <2>1. UNCHANGED <<requireCookie, clock, tasks>> /\ replies' \subseteq replies
    BY <1>4, Zenon DEF GetReply
  <2>2. GoodOption(Keep(c, r))  BY <1>0, Zenon DEF Keep, CookieInv
  <2>3. CASE r.resp.rcode = "BADCOOKIE" \/ r.tc
    <3>1. /\ client' = [client EXCEPT ![c].jar = Keep(c, r),
                                      ![c].via = IF r.tc THEN "stream" ELSE @]
          /\ inbox' = inbox \cup {Message(client'[c])}
      BY <1>4, <2>3, Zenon DEF GetReply
    <3>2. /\ DOMAIN client' = Clients /\ \A b \in Clients : DOMAIN client'[b] = ClientFields
          /\ \A b \in Clients \ {c} : client'[b].jar = client[b].jar
          /\ client'[c].jar = Keep(c, r)
      BY <1>0, <3>1, Zenon
    <3> QED  BY <2>1, <2>2, <3>1, <3>2, SendingStep
  <2>4. CASE ~(r.resp.rcode = "BADCOOKIE" \/ r.tc)
    <3>1. /\ client' = [client EXCEPT ![c].jar = Keep(c, r), ![c].ask = NoAsk]
          /\ inbox' = inbox
      BY <1>4, <2>4, Zenon DEF GetReply
    <3>2. /\ DOMAIN client' = Clients /\ \A b \in Clients : DOMAIN client'[b] = ClientFields
          /\ \A b \in Clients \ {c} : client'[b].jar = client[b].jar
          /\ client'[c].jar = Keep(c, r)
      BY <1>0, <3>1, Zenon
    <3> QED  BY <2>1, <2>2, <3>1, <3>2, SendingStep
  <2> QED  BY <2>3, <2>4, Zenon
<1> QED  BY <1>1, <1>2, <1>3, <1>4, Zenon

LEMMA CookieStep == CookieInv /\ [FrontNext]_frontVars => CookieInv'
<1> SUFFICES ASSUME CookieInv, [FrontNext]_frontVars PROVE CookieInv'  BY Zenon
<1>0. /\ DOMAIN client = Clients /\ \A b \in Clients : DOMAIN client[b] = ClientFields
      /\ clock \in Nat /\ clock <= clock
  BY DEF CookieInv
<1>1. CASE Serve  BY <1>1, ServeStep, Zenon
<1>2. CASE \E c \in Clients : \/ Resend(c)
                              \/ \E a \in DOMAIN Asks : Ask(c, a)
                              \/ \E ip \in Addresses : Move(c, ip)
                              \/ \E r \in replies : GetReply(c, r)
  BY <1>2, ClientStep, Zenon
<1>3. ASSUME NEW r \in replies, Discard(r) \/ LoseReply(r) PROVE CookieInv'
  <2>1. /\ UNCHANGED <<requireCookie, clock, client, inbox, tasks>>
        /\ replies' \subseteq replies
    BY <1>3, Zenon DEF Discard, LoseReply
  <2> QED  BY <1>0, <2>1, QuietStep, Zenon
<1>4. ASSUME NEW m \in inbox, RateLimited(m) PROVE CookieInv'
  <2>1. UNCHANGED <<requireCookie, clock, client, replies, tasks>> /\ inbox' \subseteq inbox
    BY <1>4, Zenon DEF RateLimited, Take
  <2> QED  BY <1>0, <2>1, QuietStep, Zenon
<1>5. CASE ReloadRpz \/ (\E n \in cache : Expire(n)) \/ UNCHANGED frontVars
  <2>1. UNCHANGED <<requireCookie, clock, client, replies, tasks, inbox>>
    BY <1>5, Zenon DEF ReloadRpz, Expire, frontVars
  <2> QED  BY <1>0, <2>1, QuietStep, Zenon
<1>6. CASE Restart
  <2>1. /\ UNCHANGED <<requireCookie, clock, client>>
        /\ replies' \subseteq replies /\ tasks' \subseteq tasks /\ inbox' \subseteq inbox
    BY <1>6, Zenon DEF Restart
  <2> QED  BY <1>0, <2>1, QuietStep, Zenon
<1>7. CASE FrontTick
  <2>1. UNCHANGED <<requireCookie, client, replies, tasks, inbox>>
    BY <1>7, Zenon DEF FrontTick
  <2>2. PICK d \in Delays : clock' = clock + d  BY <1>7, Zenon DEF FrontTick
  <2>3. clock' \in Nat /\ clock <= clock'  BY <1>0, <2>2, ClockAssumption
  <2> QED  BY <1>0, <2>1, <2>3, QuietStep, Zenon
<1> QED  BY <1>1, <1>2, <1>3, <1>4, <1>5, <1>6, <1>7, Zenon DEF FrontNext, Receive

(* The invariant holds, and with it: a client is never challenged for a    *)
(* cookie of this process that is not older than twice its lifetime.       *)
LEMMA HonouredIfGood == CookieInv => CookiesHonoured
<1> SUFFICES ASSUME CookieInv, NEW c \in Clients, NEW o, o = client[c].jar,
                    o.cookie.len = 24, o.cookie.hash[1] = secret, clock - o.at <= 2 * Lifetime
             PROVE  Accepted(secret, o.cookie, o.to, Now)
  BY Zenon DEF CookiesHonoured
<1>1. /\ o.at \in Nat /\ o.at <= clock /\ clock \in Nat
      /\ o.cookie.ts = o.at % TimeSpace
  BY Zenon DEF CookieInv, GoodOption
<1>2. PICK k : o.cookie.hash = Hash(k, o.cookie.client, o.to, o.cookie.ts)
  BY Zenon DEF CookieInv, GoodOption
<1>3. o.cookie.hash = Hash(secret, o.cookie.client, o.to, o.cookie.ts)  BY <1>2 DEF Hash
<1> DEFINE d == clock - o.at
<1>4. d \in Nat /\ d < TimeSpace /\ d <= 2 * Lifetime /\ clock = o.at + d
  BY <1>1, LifetimeAssumption, TimeSpaceAssumption
<1> HIDE DEF d
<1>5. Age(Now, o.cookie.ts) = d  BY <1>1, <1>4, AgeExact, Zenon DEF Now
<1> QED  BY <1>3, <1>4, <1>5, AcceptedIf, Zenon

(* A client is never challenged for a cookie of this process that is not   *)
(* older than twice its lifetime: the check in front of handle_query       *)
(* accepts what CookieKey::build gave out.                                 *)
THEOREM CookiesAlwaysHonoured == FrontSpec => []CookiesHonoured
<1>1. FrontSpec => []CookieInv  BY CookieInit, CookieStep, PTL DEF FrontSpec
<1> QED  BY <1>1, HonouredIfGood, PTL

(* With cookies required, a query by UDP is looked at, and upstreams are   *)
(* asked for it, only if it shows a cookie given to its source address.    *)
THEOREM AlwaysVerified == FrontSpec => []VerifiedOnly
<1>1. FrontSpec => []CookieInv  BY CookieInit, CookieStep, PTL DEF FrontSpec
<1>2. CookieInv => VerifiedOnly  BY Zenon DEF CookieInv
<1> QED  BY <1>1, <1>2, PTL

----------------------------------------------------------------------------
(***************************************************************************)
(* Who gets what was resolved elsewhere.  A task waits only for a client   *)
(* that may use recursion and asked for it, and for its own name only if   *)
(* no rule covered it.                                                     *)
(***************************************************************************)
ResponseFields ==
    {"rcode", "from", "answers", "authority", "body", "signer", "policy", "resolved"}

Resolves(ip, ask, n, policy) ==
    /\ IsAllowed(Allowed, ip) /\ Asks[ask].rd
    /\ n = Asks[ask].name => ~Ruled(policy, n)

Elsewhere == {"cache", "upstream"}

GuardedResponse(ip, ask, resp) ==
    /\ DOMAIN resp = ResponseFields
    /\ resp.from \in Elsewhere => Resolves(ip, ask, resp.resolved, resp.policy)

GuardedTask(t) ==
    /\ DOMAIN t.resp = ResponseFields /\ t.resp.from \notin Elsewhere
    /\ Resolves(t.m.src, t.m.ask, t.target, t.resp.policy)

GuardInv ==
    /\ \A t \in tasks : GuardedTask(t)
    /\ \A r \in replies : GuardedResponse(r.dst, r.ask, r.resp)

LEMMA BlankGuarded ==
    ASSUME NEW ip, NEW ask, NEW rcode
    PROVE  /\ GuardedResponse(ip, ask, Rcode(rcode)) /\ GuardedResponse(ip, ask, Blank)
           /\ DOMAIN Rcode(rcode) = ResponseFields /\ Rcode(rcode).from = "none"
           /\ DOMAIN Blank = ResponseFields /\ Blank.from = "none"
  BY Zenon DEF Rcode, Blank, GuardedResponse, ResponseFields, Elsewhere

(* What merge makes of a response for a client that may have it. *)
LEMMA MergeGuarded ==
    ASSUME NEW ip, NEW ask, NEW resp, NEW source, NEW n, NEW append,
           DOMAIN resp = ResponseFields, Resolves(ip, ask, n, resp.policy)
    PROVE  GuardedResponse(ip, ask, Merge(resp, source, n, append))
<1> DEFINE made == Merge(resp, source, n, append)
<1>1. DOMAIN made = ResponseFields /\ made.resolved = n /\ made.policy = resp.policy
  BY Zenon DEF Merge, ResponseFields
<1> QED  BY <1>1, Zenon DEF GuardedResponse

(* What resolve_local decided, an answer or a task, is guarded. *)
Waiting(m, out) ==
    [m |-> m, resp |-> out.resp, target |-> out.target, append |-> out.append]

Decided(m, out) ==
    IF out.pending THEN GuardedTask(Waiting(m, out))
                   ELSE GuardedResponse(m.src, m.ask, out.resp)

LEMMA AnswerGuarded ==
    ASSUME NEW m, NEW resp, GuardedResponse(m.src, m.ask, resp)
    PROVE  Decided(m, Answer(resp))
<1>1. Answer(resp).pending = FALSE /\ Answer(resp).resp = resp
  BY Zenon DEF Answer
<1> QED  BY <1>1, Zenon DEF Decided

(* A name that is looked up for a client: from the cache, or by a task. *)
LEMMA ResolvedGuarded ==
    ASSUME NEW m, NEW resp, NEW n, NEW append,
           DOMAIN resp = ResponseFields, resp.from \notin Elsewhere,
           Resolves(m.src, m.ask, n, resp.policy)
    PROVE  Decided(m, Resolved(resp, n, append))
<1>1. CASE n \in cache
  BY <1>1, MergeGuarded, AnswerGuarded, Zenon DEF Resolved
<1>2. CASE n \notin cache
  <2>1. PICK out : out = Pending(resp, n, append) /\ out = Resolved(resp, n, append)
    BY <1>2, Zenon DEF Resolved
  <2>2. out.pending /\ out.resp = resp /\ out.target = n
    BY <2>1 DEF Pending
  <2>3. PICK w : w = Waiting(m, out)
    BY Zenon
  <2>4. w.m = m /\ w.resp = resp /\ w.target = n
    BY <2>2, <2>3, Zenon DEF Waiting
  <2>5. GuardedTask(w)
    BY <2>4, Zenon DEF GuardedTask
  <2> QED  BY <2>1, <2>2, <2>3, <2>5, Zenon DEF Decided
<1> QED  BY <1>1, <1>2, Zenon

(* An answer from a zone has come from nowhere else. *)
LEMMA ZoneGuarded ==
    ASSUME NEW z \in AllZones, NEW a
    PROVE  DOMAIN FromZone(z, a) = ResponseFields /\ FromZone(z, a).from \notin Elsewhere
<1>1. ASSUME NEW resp, DOMAIN resp = ResponseFields, resp.from = z.view
      PROVE  /\ DOMAIN AttachDnssec(z, a, resp) = ResponseFields
             /\ AttachDnssec(z, a, resp).from = z.view
  BY <1>1, Zenon DEF AttachDnssec, ResponseFields
<1>2. z.view \notin Elsewhere
  BY ZonesAssumption, Zenon DEF Elsewhere
<1> DEFINE known == a.name \in DOMAIN z.data
           hit == known /\ (a.qtype = "ANY" \/ z.data[a.name].type \in {a.qtype, "CNAME"})
           base == [Blank EXCEPT !.from = z.view,
                                 !.rcode = IF known THEN "NOERROR" ELSE "NXDOMAIN",
                                 !.answers = IF hit THEN {z.data[a.name].type} ELSE {},
                                 !.body = IF hit THEN z.data[a.name].size ELSE 0,
                                 !.authority = IF hit THEN {} ELSE {"SOA"}]
<1>3. DOMAIN base = ResponseFields /\ base.from = z.view
  BY Zenon DEF Blank, ResponseFields
<1>4. FromZone(z, a) = AttachDnssec(z, a, base)
  BY Zenon DEF FromZone
<1> HIDE DEF base
<1> QED  BY <1>1, <1>2, <1>3, <1>4, Zenon

LEMMA PolicyGuarded ==
    ASSUME NEW ip, NEW ask, NEW a
    PROVE  GuardedResponse(ip, ask, RpzAnswer(a))
<1>1. DOMAIN RpzAnswer(a) = ResponseFields /\ RpzAnswer(a).from = "rpz"
  BY Zenon DEF RpzAnswer, Rcode, Blank, ResponseFields
<1> QED  BY <1>1, Zenon DEF GuardedResponse, Elsewhere

(* Every client is shown zones of the configuration. *)
LEMMA ZonesKnown ==
    ASSUME NEW ip
    PROVE  ZonesFor(ip) \subseteq AllZones
<1> DEFINE matching == {i \in DOMAIN Views : IsAllowed(Views[i].acl, ip)}
           first == {i \in matching : \A j \in matching : i <= j}
<1>1. ZonesFor(ip) = IF matching = {} THEN Zones ELSE UNION {Views[i].zones : i \in first}
  BY Zenon DEF ZonesFor
<1>2. first \subseteq DOMAIN Views
  BY Zenon
<1> HIDE DEF first, matching
<1>3. UNION {Views[i].zones : i \in first} \subseteq UNION {Views[i].zones : i \in DOMAIN Views}
  BY <1>2, Zenon
<1> QED  BY <1>1, <1>3, Zenon DEF AllZones

(* A name of a zone; a CNAME that leaves the zone is another name. *)
LEMMA InZoneGuarded ==
    ASSUME NEW m, NEW a, a = Asks[m.ask], NEW z \in AllZones,
           NEW out, out = ResolveInZone(z, a, m.src)
    PROVE  Decided(m, out)
<1> DEFINE target == IF a.name \in DOMAIN z.data THEN z.data[a.name].offsite ELSE NoName
           follows == target # NoName /\ a.rd /\ CanRecurse(target) /\ IsAllowed(Allowed, m.src)
<1>1. DOMAIN FromZone(z, a) = ResponseFields /\ FromZone(z, a).from \notin Elsewhere
  BY ZoneGuarded, Zenon
<1>2. out = IF follows THEN Resolved(FromZone(z, a), target, TRUE) ELSE Answer(FromZone(z, a))
  BY Zenon DEF ResolveInZone
<1>3. follows => target # a.name
  BY ZonesAssumption, Zenon
<1>4. follows => Resolves(m.src, m.ask, target, FromZone(z, a).policy)
  BY <1>3, Zenon DEF Resolves
<1> HIDE DEF target, follows
<1>5. GuardedResponse(m.src, m.ask, FromZone(z, a))
  BY <1>1, Zenon DEF GuardedResponse
<1> QED  BY <1>1, <1>2, <1>4, <1>5, ResolvedGuarded, AnswerGuarded, Zenon

(* A name of no zone: the policy comes first. *)
LEMMA ForClientGuarded ==
    ASSUME NEW m, NEW a, a = Asks[m.ask], NEW out, out = ResolveForClient(a, m.src)
    PROVE  Decided(m, out)
<1>1. CASE RpzRules(a.name) # {}
  <2>1. out = Answer(RpzAnswer(a))
    BY <1>1, Zenon DEF ResolveForClient
  <2> QED  BY <2>1, PolicyGuarded, AnswerGuarded, Zenon
<1>2. CASE RpzRules(a.name) = {} /\ (~a.rd \/ ~CanRecurse(a.name) \/ ~IsAllowed(Allowed, m.src))
  <2>1. out = Answer(Rcode("REFUSED"))
    BY <1>2, Zenon DEF ResolveForClient
  <2> QED  BY <2>1, BlankGuarded, AnswerGuarded, Zenon
<1>3. CASE RpzRules(a.name) = {} /\ a.rd /\ CanRecurse(a.name) /\ IsAllowed(Allowed, m.src)
  <2>1. out = Resolved(Blank, a.name, FALSE)
    BY <1>3, Zenon DEF ResolveForClient
  <2>2. Blank.policy = DOMAIN rpz
    BY Zenon DEF Blank
  <2>3. Resolves(m.src, m.ask, a.name, Blank.policy)
    BY <1>3, <2>2, Zenon DEF Resolves, Ruled, RpzRules
  <2>4. DOMAIN Blank = ResponseFields /\ Blank.from \notin Elsewhere
    BY BlankGuarded, Zenon DEF Elsewhere
  <2> QED  BY <2>1, <2>3, <2>4, ResolvedGuarded, Zenon
<1> QED  BY <1>1, <1>2, <1>3, Zenon

(* Resolver::resolve_local, as far as it decides who gets what. *)
LEMMA LocalGuarded ==
    ASSUME NEW m, NEW out, out = ResolveLocal(Asks[m.ask], m.src)
    PROVE  Decided(m, out)
<1>1. PICK a : a = Asks[m.ask]
  BY Zenon
<1>2. PICK zs : zs = FindZone(ZonesFor(m.src), a.name)
  BY Zenon
<1>3. \/ out = Answer(Rcode(FirstFailed(a)))
      \/ zs # {} /\ out = ResolveInZone(CHOOSE z \in zs : TRUE, a, m.src)
      \/ out = ResolveForClient(a, m.src)
  BY <1>1, <1>2, Zenon DEF ResolveLocal
<1>4. zs \subseteq AllZones
  BY <1>2, ZonesKnown, Zenon DEF FindZone
<1>5. zs # {} => (CHOOSE z \in zs : TRUE) \in AllZones
  BY <1>4, Zenon
<1> QED
  BY <1>1, <1>3, <1>5, BlankGuarded, AnswerGuarded, InZoneGuarded, ForClientGuarded, Zenon

(* What is sent is the response, or an empty one. *)
LEMMA SendGuarded ==
    ASSUME GuardInv, NEW m, NEW resp, NEW option, Send(m, resp, option),
           GuardedResponse(m.src, m.ask, resp)
    PROVE  \A r \in replies' : GuardedResponse(r.dst, r.ask, r.resp)
<1> DEFINE q == Reply(m, resp, option)
           u == Truncated(q)
<1>1. q.dst = m.src /\ q.ask = m.ask /\ q.resp = resp
  BY Zenon DEF Reply
<1>2. /\ u.dst = m.src /\ u.ask = m.ask
      /\ DOMAIN u.resp = ResponseFields /\ u.resp.from = "none"
  BY Zenon DEF Truncated, Reply, Blank, ResponseFields
<1>3. replies' = replies \cup {IF Fits(q.resp, m) THEN q ELSE u}  BY Zenon DEF Send
<1> HIDE DEF q, u
<1>4. GuardedResponse(u.dst, u.ask, u.resp)
  BY <1>2, Zenon DEF GuardedResponse, Elsewhere
<1> QED  BY <1>1, <1>3, <1>4, Zenon DEF GuardInv

LEMMA FinishGuarded ==
    ASSUME GuardInv, NEW m, NEW resp, Finish(m, resp), GuardedResponse(m.src, m.ask, resp)
    PROVE  \A r \in replies' : GuardedResponse(r.dst, r.ask, r.resp)
<1> DEFINE cut == StripDnssecUnlessDo(resp, Asks[m.ask])
<1>1. /\ DOMAIN cut = DOMAIN resp /\ cut.from = resp.from
      /\ cut.resolved = resp.resolved /\ cut.policy = resp.policy
  BY DEF StripDnssecUnlessDo
<1>2. Send(m, cut, Attached(m))
  BY Zenon DEF Finish
<1> HIDE DEF cut
<1>3. GuardedResponse(m.src, m.ask, cut)
  BY <1>1, Zenon DEF GuardedResponse
<1> QED  BY <1>2, <1>3, SendGuarded, Zenon

LEMMA GuardStep == GuardInv /\ [FrontNext]_frontVars => GuardInv'
<1> SUFFICES ASSUME GuardInv, [FrontNext]_frontVars PROVE GuardInv'  BY Zenon
<1>0. ASSUME tasks' \subseteq tasks, \A r \in replies' : GuardedResponse(r.dst, r.ask, r.resp)
      PROVE  GuardInv'
  BY <1>0, Zenon DEF GuardInv, GuardedTask, GuardedResponse, Resolves
<1>1. ASSUME NEW m \in inbox, Unparseable(m) \/ Notified(m) \/ Challenged(m) PROVE GuardInv'
  <2>1. UNCHANGED tasks /\ \E rcode, option : Send(m, Rcode(rcode), option)
    BY <1>1, Zenon DEF Unparseable, Notified, Challenged
  <2>2. PICK rcode, option : Send(m, Rcode(rcode), option)
    BY <2>1, Zenon
  <2>3. \A r \in replies' : GuardedResponse(r.dst, r.ask, r.resp)
    BY <2>2, BlankGuarded, SendGuarded, Zenon
  <2> QED  BY <1>0, <2>1, <2>3, Zenon
<1>2. ASSUME NEW m \in inbox, Answered(m) PROVE GuardInv'
  <2>0. PICK out : out = ResolveLocal(Asks[m.ask], m.src)
    BY Zenon
  <2>1. IF out.pending THEN tasks' = tasks \cup {Waiting(m, out)} /\ UNCHANGED replies
                       ELSE Finish(m, out.resp) /\ UNCHANGED tasks
    BY <1>2, <2>0, Zenon DEF Answered, Waiting
  <2>2. Decided(m, out)
    BY <2>0, LocalGuarded, Zenon
  <2>3. CASE out.pending
    BY <2>1, <2>2, <2>3, Zenon DEF GuardInv, Decided, GuardedTask, GuardedResponse, Resolves
  <2>4. CASE ~out.pending
    <3>1. \A r \in replies' : GuardedResponse(r.dst, r.ask, r.resp)
      BY <2>1, <2>2, <2>4, FinishGuarded, Zenon DEF Decided
    <3> QED  BY <1>0, <2>1, <2>4, <3>1, Zenon
  <2> QED  BY <2>3, <2>4, Zenon
<1>3. ASSUME NEW t \in tasks, PendingDone(t) PROVE GuardInv'
  <2>1. tasks' \subseteq tasks
    BY <1>3, Zenon DEF PendingDone
  <2>2. GuardedTask(t)
    BY Zenon DEF GuardInv
  <2>3. CASE Finish(t.m, Merge(t.resp, "upstream", t.target, t.append))
    <3>1. GuardedResponse(t.m.src, t.m.ask, Merge(t.resp, "upstream", t.target, t.append))
      BY <2>2, MergeGuarded, Zenon DEF GuardedTask
    <3> QED  BY <1>0, <2>1, <2>3, <3>1, FinishGuarded, Zenon
  <2>4. CASE Finish(t.m, [t.resp EXCEPT !.rcode = "SERVFAIL"])
    <3> DEFINE resp == [t.resp EXCEPT !.rcode = "SERVFAIL"]
    <3>1. DOMAIN resp = ResponseFields /\ resp.from \notin Elsewhere
      BY <2>2, Zenon DEF GuardedTask, ResponseFields
    <3> HIDE DEF resp
    <3>2. GuardedResponse(t.m.src, t.m.ask, resp)
      BY <3>1, Zenon DEF GuardedResponse
    <3> QED  BY <1>0, <2>1, <2>4, <3>2, FinishGuarded, Zenon DEF resp
  <2> QED  BY <1>3, <2>3, <2>4, Zenon DEF PendingDone
<1>4. ASSUME tasks' \subseteq tasks, replies' \subseteq replies PROVE GuardInv'
  BY <1>0, <1>4, Zenon DEF GuardInv
<1>5. CASE Receive \/ (\E m \in inbox : RateLimited(m)) \/ (\E r \in replies : LoseReply(r))
  <2>1. tasks' \subseteq tasks /\ replies' \subseteq replies
    BY <1>5, Zenon DEF Receive, Discard, GetReply, RateLimited, LoseReply
  <2> QED  BY <1>4, <2>1, Zenon
<1>6. CASE ReloadRpz \/ Restart \/ FrontTick \/ (\E n \in cache : Expire(n))
  <2>1. tasks' \subseteq tasks /\ replies' \subseteq replies
    BY <1>6, Zenon DEF ReloadRpz, Restart, FrontTick, Expire
  <2> QED  BY <1>4, <2>1, Zenon
<1>7. CASE \/ UNCHANGED frontVars
           \/ \E c \in Clients : \/ Resend(c)
                                 \/ \E a \in DOMAIN Asks : Ask(c, a)
                                 \/ \E ip \in Addresses : Move(c, ip)
  <2>1. UNCHANGED <<tasks, replies>>
    BY <1>7, Zenon DEF Resend, Ask, Move, frontVars
  <2> QED  BY <1>4, <2>1, Zenon
<1> QED  BY <1>1, <1>2, <1>3, <1>5, <1>6, <1>7, Zenon DEF FrontNext, Serve, Worker

(* Only a client that may use recursion and asked for it is answered from  *)
(* the cache or an upstream, and not for a name a rule covered when the    *)
(* query came in: resolve_local looks at the policy before the cache, and  *)
(* what it decided still stands when resolve_pending ends, for all views,  *)
(* zones, policies and reloads.                                            *)
THEOREM RecursionAlwaysGuarded == FrontSpec => []RecursionGuarded
<1>1. FrontInit => GuardInv
  BY Zenon DEF FrontInit, GuardInv
<1>2. GuardInv => RecursionGuarded
  <2> SUFFICES ASSUME GuardInv, NEW r \in replies, r.resp.from \in {"cache", "upstream"}
               PROVE  /\ IsAllowed(Allowed, r.dst) /\ Asks[r.ask].rd
                      /\ r.resp.resolved = Asks[r.ask].name
                           => ~Ruled(r.resp.policy, Asks[r.ask].name)
    BY Zenon DEF RecursionGuarded
  <2>1. Resolves(r.dst, r.ask, r.resp.resolved, r.resp.policy)
    BY Zenon DEF GuardInv, GuardedResponse, Elsewhere
  <2> QED  BY <2>1, Zenon DEF Resolves
<1> QED  BY <1>1, <1>2, GuardStep, PTL DEF FrontSpec
=============================================================================
