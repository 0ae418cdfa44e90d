---------------------------- MODULE RateLimiter ----------------------------
(***************************************************************************)
(* dns-guard: the per-client token bucket.  RateLimiter::allow reads the   *)
(* clock before it takes the mutex, so calls of different workers may be   *)
(* applied in another order than that of their clock readings.  Time is    *)
(* counted in ticks and tokens in fractions of 1/TicksPerSecond, so that a *)
(* tick refills Qps of them.                                               *)
(***************************************************************************)
EXTENDS Integers, FiniteSets

CONSTANTS
    Ips,                 \* source addresses
    Threads,             \* UDP workers and TCP connections
    Qps, Burst,          \* as configured
    TicksPerSecond,
    PurgeAfter,          \* seconds after which a bucket is stale (60)
    CleanupThreshold,
    MaxTime              \* bound on the clock

ASSUME RateLimiterAssumption ==
    /\ {Burst, CleanupThreshold, MaxTime} \subseteq Nat
    /\ {Qps, TicksPerSecond, PurgeAfter} \subseteq Nat \ {0}

VARIABLES
    now,        \* the monotonic clock
    buckets,    \* per client, its bucket or NoBucket
    call,       \* per thread, the call it is in: whose query, clock reading
    granted,    \* history: per client, the queries let through
    applied,    \* history: the last clock reading applied to the client
    skew        \* history: by how much, in all, readings were applied late

vars == <<now, buckets, call, granted, applied, skew>>

NoBucket == [tokens |-> -1, last |-> -1]
NoCall == [client |-> "none", at |-> -1]

(* RateLimiter::new never lets the burst be less than a second's refill. *)
Full == TicksPerSecond * (IF Burst < Qps THEN Qps ELSE Burst)

Capped(n) == IF n < Full THEN n ELSE Full

(* Instant::duration_since is zero when the other instant is later. *)
Since(at, last) == IF at > last THEN at - last ELSE 0

----------------------------------------------------------------------------
Init ==
    /\ now = 0
    /\ buckets = [c \in Ips |-> NoBucket]
    /\ call = [t \in Threads |-> NoCall]
    /\ granted = [c \in Ips |-> 0]
    /\ applied = [c \in Ips |-> 0]
    /\ skew = [c \in Ips |-> 0]

Tick ==
    /\ now < MaxTime
    /\ now' = now + 1
    /\ UNCHANGED <<buckets, call, granted, applied, skew>>

BeginAllow(t, c) ==
    /\ call[t] = NoCall
    /\ call' = [call EXCEPT ![t] = [client |-> c, at |-> now]]
    /\ UNCHANGED <<now, buckets, granted, applied, skew>>

(* Too many buckets: those not used for PurgeAfter seconds are dropped. *)
Purged(at) ==
    {c \in Ips :
        /\ Cardinality({d \in Ips : buckets[d] # NoBucket}) > CleanupThreshold
        /\ buckets[c] # NoBucket
        /\ Since(at, buckets[c].last) \div TicksPerSecond >= PurgeAfter}

(* Mutants of Refilled: always full; a tick is forgotten. *)
RefilledFull(c, at) == Full
RefilledShort(c, at) ==
    IF buckets[c] = NoBucket \/ c \in Purged(at)
    THEN Full
    ELSE Capped(buckets[c].tokens + Qps * Since(at, buckets[c].last + 1))

(* The tokens of the client once the time since its last query is credited. *)
Refilled(c, at) ==
    IF buckets[c] = NoBucket \/ c \in Purged(at)
    THEN Full
    ELSE Capped(buckets[c].tokens + Qps * Since(at, buckets[c].last))

(* What is left after the query was let through or refused. *)
Spent(tokens) == IF tokens >= TicksPerSecond THEN tokens - TicksPerSecond ELSE tokens

(* RateLimiter::allow under the mutex. *)
Allow(t) ==
    LET c == call[t].client
        at == call[t].at
        tokens == Refilled(c, at)
    IN  /\ call[t] # NoCall
        /\ buckets' = [d \in Ips |->
                          IF d = c THEN [tokens |-> Spent(tokens), last |-> at]
                          ELSE IF d \in Purged(at) THEN NoBucket
                          ELSE buckets[d]]
        /\ granted' = [granted EXCEPT ![c] = IF tokens >= TicksPerSecond THEN @ + 1 ELSE @]
        /\ skew' = [skew EXCEPT ![c] = @ + Since(applied[c], at)]
        /\ applied' = [d \in Ips |-> IF d = c \/ d \in Purged(at) THEN at ELSE applied[d]]
        /\ call' = [call EXCEPT ![t] = NoCall]
        /\ UNCHANGED now

Next ==
    \/ Tick
    \/ \E t \in Threads : Allow(t) \/ \E c \in Ips : BeginAllow(t, c)

Spec == Init /\ [][Next]_vars

----------------------------------------------------------------------------
TypeOK ==
    /\ now \in 0..MaxTime
    /\ \A c \in Ips :
           \/ buckets[c] = NoBucket
           \/ buckets[c] \in [tokens : 0..Full, last : 0..now]
    /\ \A t \in Threads :
           call[t] = NoCall \/ call[t] \in [client : Ips, at : 0..now]
    /\ granted \in [Ips -> Nat]
    /\ applied \in [Ips -> 0..now]
    /\ skew \in [Ips -> Nat]

(***************************************************************************)
(* A client is never let through more often than a full bucket and the     *)
(* refill of the time that has passed allow, plus the refill of the time   *)
(* by which clock readings were applied late: however calls interleave,    *)
(* and although buckets are purged and made anew.                          *)
(***************************************************************************)
CreditBounded ==
    \A c \in Ips :
        TicksPerSecond * granted[c] <= Full + Qps * (now + skew[c])

(***************************************************************************)
(* A client that kept quiet for a second is let through, whatever it, the  *)
(* others and the purge did before: refused queries cost nothing.          *)
(***************************************************************************)
QuietClientAdmitted ==
    [][\A c \in Ips :
           /\ buckets[c] # NoBucket /\ buckets'[c] # NoBucket
           /\ buckets'[c].last >= buckets[c].last + TicksPerSecond
           => granted'[c] = granted[c] + 1]_vars

(***************************************************************************)
(* dns-guard/src/lib.rs:93-94: "`qps` tokens refill per second up to       *)
(* `burst`".  Queries let through never exceed a full bucket and the       *)
(* refill of the time that has passed.                                     *)
(***************************************************************************)
RateHonoured ==
    \A c \in Ips : TicksPerSecond * granted[c] <= Full + Qps * now
=============================================================================
