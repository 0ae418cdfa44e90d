---------------------------- MODULE CacheProofs ----------------------------
(***************************************************************************)
(* The cache never outgrows its capacity, never serves a record for longer *)
(* than its time to live allows, and implements CacheContract, for every   *)
(* capacity, key set, set of times to live and number of threads.  What    *)
(* else all queries share is the pool of upstreams: a query finds every    *)
(* upstream that stays up, for any number of upstreams, attempts and       *)
(* concurrent queries.                                                     *)
(***************************************************************************)
EXTENDS Cache, Upstream, FiniteSetTheorems, TLAPS

USE Zenon


(* Min and Max of two numbers are one of them, and bound both. *)
LEMMA MinOfTwo ==
    ASSUME NEW a \in Int, NEW b \in Int
    PROVE  Min({a, b}) \in {a, b} /\ Min({a, b}) <= a /\ Min({a, b}) <= b
<1>1. \E x \in {a, b} : \A y \in {a, b} : x <= y
  BY SMT
<1> QED
  BY <1>1 DEF Min

LEMMA MaxOfTwo ==
    ASSUME NEW a \in Int, NEW b \in Int
    PROVE  Max({a, b}) \in {a, b} /\ Max({a, b}) >= a /\ Max({a, b}) >= b
<1>1. \E x \in {a, b} : \A y \in {a, b} : x >= y
  BY SMT
<1> QED
  BY <1>1 DEF Max

(* Cache::new keeps room for at least one entry. *)
LEMMA CapacityPositive == Capacity \in Nat /\ Capacity >= 1
<1>1. MaxEntries \in Int /\ 1 \in Int /\ MaxEntries \in Nat
  BY CacheAssumption, SMT
<1>2. /\ Max({MaxEntries, 1}) \in {MaxEntries, 1}
      /\ Max({MaxEntries, 1}) >= 1
  BY <1>1, MaxOfTwo
<1> QED
  BY <1>1, <1>2, SMT DEF Capacity

(* Sets of keys have a size, and a smaller set has no larger one. *)
LEMMA KeysCount ==
    ASSUME NEW S \in SUBSET Keys, NEW T \in SUBSET S
    PROVE  /\ IsFiniteSet(S) /\ IsFiniteSet(T)
           /\ Cardinality(S) \in Nat /\ Cardinality(T) \in Nat
           /\ Cardinality(T) <= Cardinality(S)
  BY CacheAssumption, FS_Subset, FS_CardinalityType

(***************************************************************************)
(* When Cache::insert has made room for a new key, at least one place is   *)
(* free: what is left is smaller than the capacity.                        *)
(***************************************************************************)
LEMMA RoomIsMade ==
    ASSUME WithinCapacity, NEW k \in Keys, k \notin Present, NEW at,
           NEW live \in Survivors(k, at)
    PROVE  live \subseteq Present /\ Cardinality(live) < Capacity
<1> DEFINE kept == {j \in Present : ~PastWindow(map[j], at)}
           shed == Capacity \div 10 + 1
           victims == {w \in SUBSET kept : Cardinality(w) = Min({shed, Cardinality(kept)})}
<1>a. Present \in SUBSET Keys /\ kept \in SUBSET Present /\ kept \in SUBSET Keys
  BY DEF Present
<1>1. CASE Cardinality(Present) < Capacity
  BY <1>1 DEF Survivors
<1>2. CASE ~(Cardinality(Present) < Capacity) /\ Cardinality(kept) < Capacity
  BY <1>2, <1>a DEF Survivors
<1>3. CASE ~(Cardinality(Present) < Capacity) /\ ~(Cardinality(kept) < Capacity)
  <2>1. live \in {kept \ v : v \in victims}
    BY <1>3 DEF Survivors
  <2>2. PICK v \in victims : live = kept \ v
    BY <2>1
  <2> HIDE DEF kept
  <2>3. IsFiniteSet(kept) /\ Cardinality(kept) \in Nat /\ Cardinality(kept) <= Capacity
    BY <1>a, KeysCount, CapacityPositive, SMT DEF WithinCapacity
  <2>4. Cardinality(kept) >= 1 /\ shed \in Nat /\ shed >= 1
    BY <1>3, <2>3, CapacityPositive, SMT
  <2>5. v \in SUBSET kept /\ Cardinality(v) \in Nat /\ Cardinality(v) >= 1
    <3>1. v \in SUBSET kept /\ Cardinality(v) = Min({shed, Cardinality(kept)})
      BY <2>2
    <3> HIDE DEF shed
    <3>2. Min({shed, Cardinality(kept)}) \in {shed, Cardinality(kept)}
      BY <2>3, <2>4, MinOfTwo, SMT
    <3> QED
      BY <2>3, <2>4, <3>1, <3>2
  <2>6. Cardinality(kept \ v) = Cardinality(kept) - Cardinality(v)
    <3>1. kept \cap v = v
      BY <2>5
    <3>2. Cardinality(kept \ v) = Cardinality(kept) - Cardinality(kept \cap v)
      BY <2>3, FS_Difference
    <3> QED
      BY <3>1, <3>2
  <2>7. live \subseteq Present
    BY <1>a, <2>2
  <2> QED
    BY <2>2, <2>3, <2>5, <2>6, <2>7, CapacityPositive, SMT
<1> QED
  BY <1>1, <1>2, <1>3

LEMMA CapacityStep == WithinCapacity /\ [Next]_vars => WithinCapacity'
<1> SUFFICES ASSUME WithinCapacity, [Next]_vars PROVE WithinCapacity'
  OBVIOUS
<1>a. Present \in SUBSET Keys /\ Capacity \in Nat
  BY CapacityPositive DEF Present
<1>1. ASSUME Present' \subseteq Present PROVE WithinCapacity'
  BY <1>1, <1>a, KeysCount, SMT DEF WithinCapacity
<1>2. CASE UNCHANGED map
  BY <1>1, <1>2 DEF Present
<1>3. ASSUME NEW t \in Threads, GetRemove(t) PROVE WithinCapacity'
  <2>1. Present' \subseteq Present
    BY <1>3, SMT DEF GetRemove, Present
  <2> QED
    BY <1>1, <2>1
<1>4. ASSUME NEW t \in Threads, InsertCommit(t) PROVE WithinCapacity'
  <2> DEFINE k == call[t].key
  <2>1. PICK live \in Survivors(k, call[t].at) :
           map' = [j \in Keys |-> IF j = k THEN Entry(call[t].resp, call[t].at)
                                  ELSE IF j \in live THEN map[j] ELSE NoEntry]
    BY <1>4 DEF InsertCommit
  <2>2. CASE k \notin Keys
    BY <1>1, <2>1, <2>2 DEF Present
  <2>3. CASE k \in Present
    BY <1>1, <2>1, <2>3 DEF Present
  <2>4. CASE k \in Keys /\ k \notin Present
    <3>1. live \subseteq Present /\ Cardinality(live) < Capacity
      BY <2>1, <2>4, RoomIsMade
    <3>2. Present' \subseteq live \cup {k}
      BY <2>1 DEF Present
    <3>3. IsFiniteSet(live) /\ Cardinality(live) \in Nat
      BY <1>a, <3>1, KeysCount
    <3>4. IsFiniteSet(live \cup {k}) /\ Cardinality(live \cup {k}) <= Cardinality(live) + 1
      BY <3>3, FS_AddElement, SMTT(30)
    <3>5. Cardinality(Present') <= Cardinality(live \cup {k}) /\ Cardinality(Present') \in Nat
      BY <3>2, <3>4, FS_Subset, FS_CardinalityType
    <3>6. Cardinality(live \cup {k}) \in Nat
      BY <3>4, FS_CardinalityType
    <3> QED
      BY <1>a, <3>1, <3>3, <3>4, <3>5, <3>6, SMT DEF WithinCapacity
  <2> QED
    BY <2>2, <2>3, <2>4
<1>5. ASSUME NEW t \in Threads, Step(t) PROVE UNCHANGED map \/ GetRemove(t) \/ InsertCommit(t)
  BY <1>5 DEF Step, BeginGet, BeginGetStale, BeginInsert, Call, GetRead, StaleRead, UseHit
<1> QED
  BY <1>2, <1>3, <1>4, <1>5 DEF Next, Tick, vars

(***************************************************************************)
(* The number of entries stays within max_entries, however the callers'    *)
(* reads, evictions and inserts interleave.                                *)
(***************************************************************************)
THEOREM CapacityHolds == Spec => []WithinCapacity
<1>1. Init => WithinCapacity
  <2>1. Init => Present = {}
    BY DEF Init, Present
  <2> QED
    BY <2>1, FS_EmptySet, CapacityPositive, SMT DEF WithinCapacity
<1> QED
  BY <1>1, CapacityStep, PTL DEF Spec

----------------------------------------------------------------------------
(* A set of TTLs has a least one. *)
LEMMA LeastTtl ==
    ASSUME NEW S \in SUBSET Nat, S # {}
    PROVE  Min(S) \in S /\ \A x \in S : Min(S) <= x
<1>1. \E x \in S : \A y \in S : ~(<<y, x>> \in OpToRel(<, Nat))
  BY NatLessThanWellFounded, WFMin
<1>2. \A x \in Nat, y \in Nat : y < x => <<y, x>> \in OpToRel(<, Nat)
  BY DEF OpToRel
<1>3. \A x \in Nat, y \in Nat : ~(y < x) => x <= y
  BY SMT
<1>4. \E x \in S : \A y \in S : x <= y
  BY <1>1, <1>2, <1>3
<1> QED
  BY <1>4 DEF Min

(* The lifetime of an entry is that of its shortest-lived record at most. *)
LEMMA EntryTtlBound ==
    ASSUME NEW r \in Responses
    PROVE  /\ EntryTtl(r) \in Nat
           /\ \A x \in r.answers : EntryTtl(r) <= x
<1>1. r.answers \in SUBSET Nat /\ (r.soa = NoSoa \/ r.soa \in [minimum : Nat, ttl : Nat])
  BY CacheAssumption DEF ResponseType
<1>2. {MaxPositiveTtl, MaxNegativeTtl, DefaultNegativeTtl} \subseteq Nat
  BY CacheAssumption
<1>3. CASE r.answers # {}
  <2>1. Min(r.answers) \in Nat /\ \A x \in r.answers : Min(r.answers) <= x
    BY <1>1, <1>3, LeastTtl
  <2> DEFINE m == Min(r.answers)
  <2>3. EntryTtl(r) = Min({m, MaxPositiveTtl})
    BY <1>3 DEF EntryTtl
  <2> HIDE DEF m
  <2>4. m \in Int /\ m \in Nat /\ MaxPositiveTtl \in Int
    BY <1>2, <2>1, SMT DEF m
  <2>2. Min({m, MaxPositiveTtl}) \in {m, MaxPositiveTtl} /\ Min({m, MaxPositiveTtl}) <= m
    BY <2>4, MinOfTwo
  <2> QED  BY <1>1, <1>2, <2>1, <2>2, <2>3, <2>4, SMT DEF m
<1>4. CASE r.answers = {}
  <2> DEFINE own == IF r.soa = NoSoa THEN DefaultNegativeTtl
                                     ELSE Min({r.soa.minimum, r.soa.ttl})
  <2>1. own \in Nat
    <3>1. CASE r.soa = NoSoa
      BY <1>2, <3>1
    <3>2. CASE r.soa # NoSoa
      <4>1. r.soa.minimum \in Nat /\ r.soa.ttl \in Nat
        BY <1>1, <3>2
      <4>2. Min({r.soa.minimum, r.soa.ttl}) \in {r.soa.minimum, r.soa.ttl}
        <5>1. r.soa.minimum \in Int /\ r.soa.ttl \in Int
          BY <4>1, SMT
        <5> QED  BY <5>1, MinOfTwo
      <4> QED  BY <3>2, <4>1, <4>2
    <3> QED  BY <3>1, <3>2
  <2> HIDE DEF own
  <2>2. Min({MaxNegativeTtl, own}) \in Nat
    BY <1>2, <2>1, MinOfTwo, SMT
  <2> QED  BY <1>4, <2>2 DEF EntryTtl, own
<1> QED  BY <1>3, <1>4

(***************************************************************************)
(* What is in the map, and what a thread is about to insert, was cacheable *)
(* and expires when its shortest-lived record does, or before.             *)
(***************************************************************************)
Sound(e) ==
    /\ e \in Entries /\ IsCacheable(e.resp)
    /\ e.expires = e.stored + TicksPerSecond * EntryTtl(e.resp)

Pending(c) ==
    /\ c.pc \in {"get", "remove", "stale", "insert"} => c.key \in Keys /\ c.at \in Nat
    /\ c.pc = "insert" => c.resp \in Responses /\ IsCacheable(c.resp)

Honest(c) ==
    c.pc = "fresh" =>
        /\ \A x \in c.entry.resp.answers : KeptFor(c, x, x)
        /\ \A x \in c.entry.resp.authorities :
               KeptFor(c, x, Max({x, EntryTtl(c.entry.resp)}))

LifetimeInv ==
    /\ now \in Nat
    /\ map \in [Keys -> Entries \cup {NoEntry}]
    /\ \A k \in Keys : map[k] # NoEntry => Sound(map[k])
    /\ call = [t \in Threads |-> call[t]]
    /\ \A t \in Threads : Pending(call[t]) /\ Honest(call[t])

LEMMA Scaled ==
    ASSUME NEW q \in Nat, NEW x \in Nat, NEW y \in Nat, x <= y
    PROVE  q * x \in Nat /\ q * y \in Nat /\ q * x <= q * y /\ q * (y + 1) = q * y + q
  BY SMTT(30)

(* The TTL of a record in a fresh hit, rounded up to the second: the       *)
(* record is kept no longer than one whose TTL y is neither below its own  *)
(* nor below the entry's.                                                  *)
LEMMA ServedWithin ==
    ASSUME NEW e, Sound(e), NEW at \in Nat, e.expires > at,
           NEW x \in Nat, NEW y \in Nat, x <= y, EntryTtl(e.resp) <= y
    PROVE  at + TicksPerSecond * ServedTtl(e, x, at)
               < e.stored + TicksPerSecond * (y + 1)
<1> DEFINE q == TicksPerSecond
           ttl == EntryTtl(e.resp)
           elapsed == IF at > e.stored THEN (at - e.stored) \div q ELSE 0
<1>1. q \in Nat \ {0}
  BY CacheAssumption
<1>2. e.stored \in Nat /\ e.expires = e.stored + q * ttl /\ e.resp \in Responses
  BY DEF Sound, Entries
<1>3. ttl \in Nat /\ ttl <= y /\ ttl >= 1
  <2>1. ttl \in Nat
    BY <1>2, EntryTtlBound
  <2> QED  BY <2>1, SMT DEF Sound, IsCacheable
<1>4. ServedTtl(e, x, at) = Max({x - elapsed, 1})
  BY DEF ServedTtl
<1> HIDE DEF q, ttl
<1>5. elapsed \in Nat /\ q * elapsed \in Nat /\ at - e.stored < q * elapsed + q
  <2>1. CASE at > e.stored
    <3> DEFINE d == at - e.stored
    <3>1. d \in Nat
      BY <1>2, <2>1, SMT
    <3> HIDE DEF d
    <3>2. d \div q \in Nat /\ d % q \in 0..(q - 1)
      BY <1>1, <3>1, SMTT(30)
    <3>3. d = q * (d \div q) + (d % q)
      BY <1>1, <3>1, <3>2, SMTT(30)
    <3>4. q * (d \div q) \in Nat
      BY <1>1, <3>2, SMTT(30)
    <3>5. elapsed = d \div q
      BY <2>1 DEF d
    <3>6. d = at - e.stored
      BY DEF d
    <3> HIDE DEF elapsed
    <3> QED  BY <1>1, <3>2, <3>3, <3>4, <3>5, <3>6, SMT
  <2>2. CASE ~(at > e.stored)
    <3>1. elapsed = 0
      BY <2>2
    <3> HIDE DEF elapsed
    <3>2. q * 0 = 0
      BY <1>1, SMT
    <3> QED  BY <1>1, <1>2, <2>2, <3>1, <3>2, SMT
  <2> QED  BY <2>1, <2>2
<1> HIDE DEF elapsed
<1>6. /\ q * ttl \in Nat /\ q * x \in Nat /\ q * y \in Nat
      /\ q * ttl <= q * y /\ q * x <= q * y
      /\ q * (y + 1) = q * y + q
  BY <1>1, <1>3, Scaled
<1>7. at - e.stored < q * y
  BY <1>1, <1>2, <1>6, SMT
<1>8. Max({x - elapsed, 1}) \in {x - elapsed, 1}
  <2>1. x - elapsed \in Int /\ 1 \in Int
    BY <1>3, <1>5, SMT
  <2> QED  BY <2>1, MaxOfTwo
<1>9. CASE Max({x - elapsed, 1}) = x - elapsed
  <2>1. q * (x - elapsed) = q * x - q * elapsed
    BY <1>1, <1>3, <1>5, SMTT(30)
  <2>2. at + q * (x - elapsed) < e.stored + q * (y + 1)
    BY <1>1, <1>2, <1>5, <1>6, <2>1, SMT
  <2> QED  BY <1>4, <1>9, <2>2 DEF q
<1>10. CASE Max({x - elapsed, 1}) = 1
  <2>1. at + q * 1 < e.stored + q * (y + 1)
    BY <1>1, <1>2, <1>6, <1>7, SMT
  <2> QED  BY <1>4, <1>10, <2>1 DEF q
<1> QED  BY <1>8, <1>9, <1>10

LEMMA FreshHitHonest ==
    ASSUME NEW e, Sound(e), NEW at \in Nat, e.expires > at
    PROVE  Honest(FreshHit(e, at))
<1> DEFINE r == e.resp
           c == FreshHit(e, at)
<1>1. /\ r \in Responses /\ r.answers \subseteq Nat /\ r.authorities \subseteq Nat
      /\ EntryTtl(r) \in Nat
  BY EntryTtlBound, CacheAssumption DEF Sound, Entries, ResponseType
<1>2. /\ c.at = at /\ c.entry = e
      /\ \A x \in r.answers \cup r.authorities : c.ttl[x] = ServedTtl(e, x, at)
  BY DEF FreshHit
<1> HIDE DEF c
<1>3. ASSUME NEW x \in r.answers PROVE KeptFor(c, x, x)
  <2>1. x \in Nat /\ x <= x /\ EntryTtl(r) <= x
    BY <1>1, EntryTtlBound, SMT
  <2>2. at + TicksPerSecond * ServedTtl(e, x, at) < e.stored + TicksPerSecond * (x + 1)
    BY <2>1, ServedWithin
  <2> QED  BY <1>2, <2>2 DEF KeptFor
<1>4. ASSUME NEW x \in r.authorities PROVE KeptFor(c, x, Max({x, EntryTtl(r)}))
  <2>1. PICK y : y = Max({x, EntryTtl(r)})
    OBVIOUS
  <2>2. x \in Int /\ x \in Nat /\ EntryTtl(r) \in Int
    BY <1>1, SMT
  <2>3. y \in {x, EntryTtl(r)} /\ y >= x /\ y >= EntryTtl(r)
    BY <2>1, <2>2, MaxOfTwo
  <2>4. y \in Nat /\ x <= y /\ EntryTtl(r) <= y
    BY <1>1, <2>2, <2>3, SMT
  <2>5. at + TicksPerSecond * ServedTtl(e, x, at) < e.stored + TicksPerSecond * (y + 1)
    BY <2>2, <2>4, ServedWithin
  <2> QED  BY <1>2, <2>1, <2>5 DEF KeptFor
<1>5. c.entry.resp = r
  BY <1>2
<1>6. Honest(c)
  BY <1>3, <1>4, <1>5 DEF Honest
<1> QED  BY <1>6 DEF c

LEMMA EntrySound ==
    ASSUME NEW r \in Responses, IsCacheable(r), NEW at \in Nat
    PROVE  Sound(Entry(r, at))
<1>1. EntryTtl(r) \in Nat /\ TicksPerSecond \in Nat
  BY EntryTtlBound, CacheAssumption
<1>2. TicksPerSecond * EntryTtl(r) \in Nat
  BY <1>1, SMTT(30)
<1> QED  BY <1>2, SMT DEF Sound, Entry, Entries

LEMMA LifetimeStep == LifetimeInv /\ [Next]_vars => LifetimeInv'
<1> SUFFICES ASSUME LifetimeInv, [Next]_vars PROVE LifetimeInv'
  OBVIOUS
<1>a. ASSUME NEW t \in Threads, NEW c, Pending(c), Honest(c),
             call' = [call EXCEPT ![t] = c], now' = now, map' = map
      PROVE  LifetimeInv'
  BY <1>a DEF LifetimeInv
<1>b. Pending(Idle) /\ Honest(Idle)
  BY DEF Pending, Honest, Idle
<1>1. CASE Tick
  BY <1>1, SMT DEF Tick, LifetimeInv
<1>2. ASSUME NEW t \in Threads, NEW k \in Keys, BeginGet(t, k) \/ BeginGetStale(t, k)
      PROVE  LifetimeInv'
  <2>1. now \in Nat
    BY DEF LifetimeInv
  <2> QED  BY <1>2, <1>a, <2>1 DEF BeginGet, BeginGetStale, Call, Pending, Honest
<1>3. ASSUME NEW t \in Threads, NEW k \in Keys, NEW r \in Responses, BeginInsert(t, k, r)
      PROVE  LifetimeInv'
  <2>1. now \in Nat
    BY DEF LifetimeInv
  <2> QED  BY <1>3, <1>a, <2>1 DEF BeginInsert, Call, Pending, Honest
<1>4. ASSUME NEW t \in Threads, GetRead(t) PROVE LifetimeInv'
  <2> DEFINE c == call[t]
             e == map[c.key]
  <2>1. c.pc = "get" /\ c.key \in Keys /\ c.at \in Nat /\ (e # NoEntry => Sound(e))
    BY <1>4 DEF GetRead, LifetimeInv, Pending
  <2>2. CASE Goto(t, Idle)
    BY <1>4, <2>2, <1>a, <1>b DEF GetRead, Goto
  <2>3. CASE e # NoEntry /\ e.expires > c.at /\ Goto(t, FreshHit(e, c.at))
    <3>1. Honest(FreshHit(e, c.at))
      BY <2>1, <2>3, FreshHitHonest
    <3>2. Pending(FreshHit(e, c.at))
      BY DEF Pending, FreshHit
    <3> QED  BY <1>4, <2>3, <1>a, <3>1, <3>2 DEF GetRead, Goto
  <2>4. CASE Goto(t, [c EXCEPT !.pc = "remove"])
    <3>1. Honest([c EXCEPT !.pc = "remove"]) /\ Pending([c EXCEPT !.pc = "remove"])
      BY <2>1, SMT DEF Honest, Pending
    <3> QED  BY <1>4, <2>4, <1>a, <3>1 DEF GetRead, Goto
  <2> QED  BY <1>4, <2>2, <2>3, <2>4 DEF GetRead
<1>5. ASSUME NEW t \in Threads, GetRemove(t) PROVE LifetimeInv'
  BY <1>5, <1>b DEF GetRemove, Goto, LifetimeInv
<1>6. ASSUME NEW t \in Threads, StaleRead(t) PROVE LifetimeInv'
  <2>1. \A e, at : /\ Pending([pc |-> "outage", entry |-> e, at |-> at])
                   /\ Honest([pc |-> "outage", entry |-> e, at |-> at])
    BY DEF Pending, Honest
  <2> QED  BY <1>6, <1>a, <1>b, <2>1 DEF StaleRead, Goto
<1>7. ASSUME NEW t \in Threads, UseHit(t) PROVE LifetimeInv'
  BY <1>7, <1>a, <1>b DEF UseHit, Goto
<1>8. ASSUME NEW t \in Threads, InsertCommit(t) PROVE LifetimeInv'
  <2> DEFINE c == call[t]
             new == Entry(c.resp, c.at)
  <2>1. c.pc = "insert" /\ c.at \in Nat /\ c.resp \in Responses /\ IsCacheable(c.resp)
    BY <1>8 DEF InsertCommit, LifetimeInv, Pending
  <2>2. Sound(new) /\ new \in Entries
    BY <2>1, EntrySound DEF Sound
  <2> HIDE DEF new
  <2>3. map' \in [Keys -> {new, NoEntry} \cup Entries]
        /\ \A k \in Keys : map'[k] \in {new, NoEntry, map[k]}
    BY <1>8, SMT DEF InsertCommit, LifetimeInv, new
  <2>4. now' = now /\ call' = [call EXCEPT ![t] = Idle]
    BY <1>8 DEF InsertCommit, Goto
  <2> QED  BY <2>2, <2>3, <2>4, <1>b DEF LifetimeInv
<1>9. CASE UNCHANGED vars
  BY <1>9 DEF vars, LifetimeInv
<1> QED
  BY <1>1, <1>2, <1>3, <1>4, <1>5, <1>6, <1>7, <1>8, <1>9 DEF Next, Step

LEMMA LifetimeInit == Init => LifetimeInv
  BY SMT DEF Init, LifetimeInv, Pending, Honest, Idle

(***************************************************************************)
(* No answer record is served with more than a second beyond the TTL it    *)
(* came with, and no authority record with more than a second beyond its   *)
(* TTL and the lifetime of the response, for all TTLs, clock resolutions,  *)
(* keys and threads.                                                       *)
(***************************************************************************)
THEOREM TtlsAreHonest == Spec => []ServedTtlHonest
<1>1. LifetimeInv => ServedTtlHonest
  BY DEF LifetimeInv, Honest, ServedTtlHonest
<1> QED  BY <1>1, LifetimeInit, LifetimeStep, PTL DEF Spec

----------------------------------------------------------------------------
(* What a key shows is something the contract knows of. *)
Shown(e) == e = NoEntry \/ Sound(e)

LEMMA AgedType ==
    ASSUME NEW e, Shown(e), NEW t \in Nat
    PROVE  Aged(e, t) \in Contract!Contents
<1>1. CASE e = NoEntry \/ PastWindow(e, t)
  BY <1>1, SMT DEF Aged, Contract!Contents, Contract!Nothing
<1>2. CASE ~(e = NoEntry \/ PastWindow(e, t))
  <2>1. e.resp \in {r \in Responses : IsCacheable(r)}
    BY <1>2 DEF Shown, Sound, Entries
  <2>2. \E a \in {"fresh", "stale"} : Aged(e, t) = Contract!Held(a, e.resp)
    BY <1>2 DEF Aged, Contract!Held
  <2> QED  BY <2>1, <2>2, SMT DEF Contract!Contents
<1> QED  BY <1>1, <1>2

(* As time goes by an entry only decays. *)
LEMMA AgedDecays ==
    ASSUME NEW e, Shown(e), NEW t \in Nat, NEW u \in Nat, t <= u
    PROVE  Aged(e, u) \in Contract!Decayed(Aged(e, t))
<1>1. CASE e = NoEntry \/ PastWindow(e, u)
  BY <1>1 DEF Aged, Contract!Decayed, Contract!Nothing
<1>2. CASE ~(e = NoEntry \/ PastWindow(e, u))
  <2>1. e.expires \in Nat /\ StaleWindow \in Nat
    BY <1>2, CacheAssumption DEF Shown, Sound, Entries
  <2>2. ~PastWindow(e, t) /\ (e.expires > u => e.expires > t)
    BY <1>2, <2>1, SMT DEF PastWindow
  <2>3. CASE e.expires > t /\ ~(e.expires > u)
    <3>1. Aged(e, t).age = "fresh" /\ Aged(e, t).resp = e.resp
      BY <1>2, <2>2, <2>3 DEF Aged
    <3>2. Aged(e, u) = Contract!Held("stale", e.resp)
      BY <1>2, <2>3 DEF Aged, Contract!Held
    <3> QED  BY <3>1, <3>2 DEF Contract!Decayed
  <2>4. CASE ~(e.expires > t /\ ~(e.expires > u))
    <3>1. Aged(e, u) = Aged(e, t)
      BY <1>2, <2>2, <2>4 DEF Aged
    <3> QED  BY <3>1 DEF Contract!Decayed
  <2> QED  BY <2>3, <2>4
<1> QED  BY <1>1, <1>2

(* A response that was just inserted is fresh, or what is left of that. *)
LEMMA InsertedDecays ==
    ASSUME NEW r \in Responses, IsCacheable(r), NEW at \in Nat, NEW u \in Nat
    PROVE  Aged(Entry(r, at), u) \in Contract!Decayed(Contract!Held("fresh", r))
<1>1. Entry(r, at) # NoEntry /\ Entry(r, at).resp = r
  BY DEF Entry, NoEntry
<1>2. Aged(Entry(r, at), u) \in
         {Contract!Nothing, Contract!Held("fresh", r), Contract!Held("stale", r)}
  BY <1>1 DEF Aged, Contract!Nothing, Contract!Held
<1>3. Contract!Held("fresh", r).age = "fresh" /\ Contract!Held("fresh", r).resp = r
  BY DEF Contract!Held
<1> QED  BY <1>2, <1>3 DEF Contract!Decayed

LEMMA DecayedRefl ==
    ASSUME NEW e
    PROVE  e \in Contract!Decayed(e) /\ [age |-> "gone"] \in Contract!Decayed(e)
  BY DEF Contract!Decayed, Contract!Nothing

LEMMA ContractStep ==
    ASSUME LifetimeInv, LifetimeInv', [Next]_vars
    PROVE  [Contract!Next]_View
<1>a. View' \in [Keys -> Contract!Contents]
  <2>1. \A k \in Keys : Shown(map'[k])
    BY DEF LifetimeInv, Shown
  <2>2. now' \in Nat
    BY DEF LifetimeInv
  <2> QED  BY <2>1, <2>2, AgedType DEF View
<1>b. ASSUME \A k \in Keys : View'[k] \in Contract!Decayed(View[k])
      PROVE  [Contract!Next]_View
  BY <1>a, <1>b DEF Contract!Next, Contract!Decay
<1>c. \A k \in Keys : View[k] = Aged(map[k], now) /\ View'[k] = Aged(map'[k], now')
  BY DEF View
<1>1. CASE Tick
  <2>1. \A k \in Keys : Aged(map[k], now') \in Contract!Decayed(Aged(map[k], now))
    <3>1. \A k \in Keys : Shown(map[k])
      BY DEF LifetimeInv, Shown
    <3>2. now \in Nat /\ now' \in Nat /\ now <= now'
      BY <1>1, SMT DEF Tick, LifetimeInv
    <3> QED  BY <3>1, <3>2, AgedDecays
  <2> QED  BY <1>1, <1>b, <1>c, <2>1 DEF Tick
<1>2. ASSUME NEW t \in Threads, GetRemove(t) PROVE [Contract!Next]_View
  <2>1. \A k \in Keys : map'[k] = map[k] \/ map'[k] = NoEntry
    BY <1>2 DEF GetRemove, LifetimeInv
  <2>2. Aged(NoEntry, now') = [age |-> "gone"] /\ now' = now
    BY <1>2 DEF Aged, GetRemove
  <2>3. \A k \in Keys : View'[k] \in Contract!Decayed(View[k])
    BY <1>c, <2>1, <2>2, DecayedRefl
  <2> QED  BY <1>b, <2>3
<1>3. ASSUME NEW t \in Threads, InsertCommit(t) PROVE [Contract!Next]_View
  <2> DEFINE c == call[t]
             new == Entry(c.resp, c.at)
  <2>1. /\ c.key \in Keys /\ c.at \in Nat /\ now \in Nat
        /\ c.resp \in Responses /\ IsCacheable(c.resp)
    BY <1>3 DEF InsertCommit, LifetimeInv, Pending
  <2>2. /\ now' = now /\ map'[c.key] = new
        /\ \A k \in Keys \ {c.key} : map'[k] = map[k] \/ map'[k] = NoEntry
    BY <1>3, <2>1 DEF InsertCommit
  <2>3. View'[c.key] \in Contract!Decayed(Contract!Held("fresh", c.resp))
    BY <1>c, <2>1, <2>2, InsertedDecays, SMT
  <2>4. Aged(NoEntry, now') = [age |-> "gone"]
    BY DEF Aged
  <2>5. \A k \in Keys \ {c.key} : View'[k] \in Contract!Decayed(View[k])
    BY <1>c, <2>2, <2>4, DecayedRefl
  <2>6. Contract!Insert(c.key, c.resp)
    BY <1>a, <2>3, <2>5 DEF Contract!Insert
  <2> QED  BY <2>1, <2>6 DEF Contract!Next
<1>4. CASE UNCHANGED <<now, map>>
  BY <1>4 DEF View
<1>5. ASSUME NEW t \in Threads, Step(t)
      PROVE  UNCHANGED <<now, map>> \/ GetRemove(t) \/ InsertCommit(t)
  BY <1>5 DEF Step, BeginGet, BeginGetStale, BeginInsert, Call, GetRead, StaleRead, UseHit
<1> QED  BY <1>1, <1>2, <1>3, <1>4, <1>5 DEF Next, vars

(***************************************************************************)
(* The cache implements its contract, for all key sets, capacities, TTLs,  *)
(* stale windows and numbers of threads: what a key shows only decays      *)
(* until the next insert.                                                  *)
(***************************************************************************)
THEOREM CacheImplementsContract == Spec => KeepsContract
<1>1. Init => Contract!Init
  BY DEF Init, Contract!Init, Contract!Nothing, View, Aged
<1>2. LifetimeInv /\ LifetimeInv' /\ [Next]_vars => [Contract!Next]_View
  BY ContractStep
<1> QED
  BY <1>1, <1>2, LifetimeInit, LifetimeStep, PTL DEF Spec, KeepsContract, Contract!Spec

----------------------------------------------------------------------------
(* m steps round a pool of m, from any start, meet every member. *)
LEMMA PoolRound ==
    ASSUME NEW m \in Nat \ {0}, NEW s \in 0..(m - 1)
    PROVE  /\ \A j \in 0..(m - 1) : (s + j) % m \in 0..(m - 1)
           /\ \A u \in 0..(m - 1) : \E j \in 0..(m - 1) : (s + j) % m = u
<1>1. \A x \in Nat : x < m => x % m = x
  BY SMT
<1>2. \A x \in Nat : x < m => (x + m) % m = x
  BY SMT
<1>3. ASSUME NEW u \in 0..(m - 1) PROVE \E j \in 0..(m - 1) : (s + j) % m = u
  <2>1. CASE u >= s
    <3>1. u - s \in 0..(m - 1) /\ s + (u - s) = u
      BY <2>1, SMT
    <3>2. u % m = u
      BY <1>1, SMT
    <3> QED  BY <3>1, <3>2
  <2>2. CASE u < s
    <3>1. u - s + m \in 0..(m - 1) /\ s + (u - s + m) = u + m
      BY <2>2, SMT
    <3>2. (u + m) % m = u
      BY <1>2, SMT
    <3> QED  BY <3>1, <3>2
  <2> QED  BY <2>1, <2>2, SMT
<1>4. ASSUME NEW j \in 0..(m - 1) PROVE (s + j) % m \in 0..(m - 1)
  BY SMT
<1> QED  BY <1>3, <1>4

QueryType ==
    [pc : {"idle", "udp", "tcp", "store", "answered", "failed"},
     start : Pool, i : Pool, attempt : Nat]

(* The members a query has been past failed it: none of them is steady. *)
PoolInv ==
    /\ alive \subseteq Pool /\ preferred \in Pool
    /\ task \in [Tasks -> QueryType]
    /\ steady \in [Tasks -> SUBSET Pool]
    /\ \A t \in Tasks :
           /\ steady[t] \subseteq alive
           /\ task[t].pc \in {"udp", "tcp"} =>
                 \A j \in 0..(task[t].i - 1) : (task[t].start + j) % PoolSize \notin steady[t]
           /\ task[t].pc = "failed" => steady[t] = {}

(* Leaving an upstream that is not steady, by retry or by moving on. *)
LEMMA FailStep ==
    ASSUME PoolInv, NEW t \in Tasks, task[t].pc \in {"udp", "tcp"}, Fail(t),
           steady' \in [Tasks -> SUBSET Pool],
           \A u \in Tasks : steady'[u] \subseteq steady[u],
           Current(t) \notin steady'[t], UNCHANGED <<alive, preferred>>
    PROVE  PoolInv'
<1>0. PoolSize \in Nat \ {0} /\ Attempts \in Nat \ {0}
  BY UpstreamAssumption
<1>1. task[t] \in QueryType
  BY DEF PoolInv
<1>2. \A u \in Tasks \ {t} : task'[u] = task[u]
  BY DEF Fail, PoolInv
<1>3. \A j \in 0..task[t].i : (task[t].start + j) % PoolSize \notin steady'[t]
  <2>1. \A j \in 0..(task[t].i - 1) : (task[t].start + j) % PoolSize \notin steady'[t]
    BY DEF PoolInv
  <2>2. (task[t].start + task[t].i) % PoolSize \notin steady'[t]
    BY DEF Current
  <2>3. \A j \in 0..task[t].i : j = task[t].i \/ j \in 0..(task[t].i - 1)
    BY <1>0, <1>1, SMT DEF QueryType, Pool
  <2> QED  BY <2>1, <2>2, <2>3
<1>4. CASE task[t].pc = "udp" /\ task[t].attempt + 1 < Attempts
  <2>1. task' = [task EXCEPT ![t] = [task[t] EXCEPT !.attempt = @ + 1]]
    BY <1>4 DEF Fail
  <2>2. task' \in [Tasks -> QueryType] /\ task'[t].pc = task[t].pc
        /\ task'[t].i = task[t].i /\ task'[t].start = task[t].start
    <3>1. task[t].attempt + 1 \in Nat
      BY <1>1, SMT DEF QueryType
    <3>2. [task[t] EXCEPT !.attempt = @ + 1] \in QueryType
      BY <1>1, <3>1 DEF QueryType
    <3> QED  BY <1>1, <2>1, <3>2 DEF PoolInv, QueryType
  <2> QED  BY <1>2, <1>3, <2>2, <1>4 DEF PoolInv
<1>5. CASE ~(task[t].pc = "udp" /\ task[t].attempt + 1 < Attempts) /\ task[t].i + 1 < PoolSize
  <2>1. task' = [task EXCEPT ![t] = [task[t] EXCEPT !.pc = "udp", !.i = @ + 1, !.attempt = 0]]
    BY <1>5 DEF Fail, NextUpstream
  <2>2. /\ task' \in [Tasks -> QueryType] /\ task'[t].pc = "udp"
        /\ task'[t].i = task[t].i + 1 /\ task'[t].start = task[t].start
    <3>1. task[t].i + 1 \in Pool
      BY <1>0, <1>1, <1>5, SMT DEF QueryType, Pool
    <3>2. [task[t] EXCEPT !.pc = "udp", !.i = @ + 1, !.attempt = 0] \in QueryType
      BY <1>1, <3>1 DEF QueryType
    <3> QED  BY <1>1, <2>1, <3>2 DEF PoolInv, QueryType
  <2>3. \A j \in 0..(task'[t].i - 1) : (task'[t].start + j) % PoolSize \notin steady'[t]
    BY <1>1, <1>3, <2>2, SMT DEF QueryType, Pool
  <2> QED  BY <1>2, <2>2, <2>3 DEF PoolInv
<1>6. CASE ~(task[t].pc = "udp" /\ task[t].attempt + 1 < Attempts) /\ ~(task[t].i + 1 < PoolSize)
  <2>1. task' = [task EXCEPT ![t] = [task[t] EXCEPT !.pc = "failed"]]
    BY <1>6 DEF Fail, NextUpstream
  <2>2. task' \in [Tasks -> QueryType] /\ task'[t].pc = "failed"
    BY <1>1, <2>1 DEF PoolInv, QueryType
  <2>3. task[t].i = PoolSize - 1 /\ task[t].start \in 0..(PoolSize - 1)
    BY <1>0, <1>1, <1>6, SMT DEF QueryType, Pool
  <2>4. ASSUME NEW u \in Pool PROVE u \notin steady'[t]
    <3>1. PICK j \in 0..(PoolSize - 1) : (task[t].start + j) % PoolSize = u
      BY <1>0, <2>3, PoolRound DEF Pool
    <3> QED  BY <1>3, <2>3, <3>1
  <2>5. steady'[t] = {}
    BY <2>4
  <2> QED  BY <1>2, <2>2, <2>5 DEF PoolInv
<1> QED  BY <1>4, <1>5, <1>6

(* Every step of every query keeps that. *)
LEMMA PoolStep == PoolInv /\ [PoolNext]_poolVars => PoolInv'
<1> SUFFICES ASSUME PoolInv, [PoolNext]_poolVars PROVE PoolInv'
  OBVIOUS
<1>0. PoolSize \in Nat \ {0} /\ Attempts \in Nat \ {0} /\ 0 \in Pool
  BY UpstreamAssumption, SMT DEF Pool
<1>1. ASSUME NEW u \in Pool, Flip(u) PROVE PoolInv'
  BY <1>1 DEF Flip, PoolInv
<1>2. ASSUME NEW t \in Tasks, Begin(t) PROVE PoolInv'
  <2> DEFINE new == [NoQuery EXCEPT !.pc = "udp", !.start = preferred]
  <2>1. new \in QueryType /\ new.pc = "udp" /\ new.i = 0
    BY <1>0 DEF NoQuery, QueryType, PoolInv
  <2>2. /\ task' = [task EXCEPT ![t] = new] /\ steady' = [steady EXCEPT ![t] = alive]
        /\ UNCHANGED <<alive, preferred>>
    BY <1>2 DEF Begin
  <2> HIDE DEF new
  <2>3. task' \in [Tasks -> QueryType] /\ steady' \in [Tasks -> SUBSET Pool]
    BY <2>1, <2>2 DEF PoolInv
  <2> QED  BY <2>1, <2>2, <2>3, SMT DEF PoolInv
<1>3. ASSUME NEW t \in Tasks, Reply(t) \/ Truncated(t) PROVE PoolInv'
  BY <1>3, SMT DEF Reply, Truncated, QueryAt, PoolInv, QueryType
<1>4. ASSUME NEW t \in Tasks, NoAnswer(t) PROVE PoolInv'
  <2>1. Current(t) \notin steady[t] /\ UNCHANGED <<alive, preferred, steady>>
    BY <1>4 DEF NoAnswer, PoolInv
  <2> QED  BY <1>4, <2>1, FailStep DEF NoAnswer, PoolInv
<1>5. ASSUME NEW t \in Tasks, Lost(t) PROVE PoolInv'
  <2>1. steady' = [steady EXCEPT ![t] = @ \ {Current(t)}] /\ UNCHANGED <<alive, preferred>>
    BY <1>5 DEF Lost
  <2>2. /\ steady' \in [Tasks -> SUBSET Pool] /\ Current(t) \notin steady'[t]
        /\ \A u \in Tasks : steady'[u] \subseteq steady[u]
    BY <2>1 DEF PoolInv
  <2> QED  BY <1>5, <2>1, <2>2, FailStep DEF Lost
<1>6. ASSUME NEW t \in Tasks, StorePreferred(t) PROVE PoolInv'
  <2>1. Current(t) \in Pool
    BY <1>0, PoolRound DEF Current, Pool, PoolInv, QueryType
  <2> QED  BY <1>6, <2>1 DEF StorePreferred, QueryAt, PoolInv, QueryType
<1>7. ASSUME NEW t \in Tasks, Return(t) PROVE PoolInv'
  BY <1>0, <1>7 DEF Return, NoQuery, PoolInv, QueryType
<1>8. CASE UNCHANGED poolVars
  BY <1>8 DEF poolVars, PoolInv
<1> QED  BY <1>1, <1>2, <1>3, <1>4, <1>5, <1>6, <1>7, <1>8 DEF PoolNext, QueryStep

(***************************************************************************)
(* A query fails only when no upstream was up, and failed none of its      *)
(* exchanges, from its start to its end: whatever index other queries make *)
(* preferred meanwhile, the loop of query_inner goes once round the pool.  *)
(***************************************************************************)
THEOREM SteadyAlwaysFound == PoolSpec => []SteadyUpstreamFound
<1>1. PoolInit => PoolInv
  BY UpstreamAssumption, SMT DEF PoolInit, PoolInv, QueryType, NoQuery, Pool
<1>2. PoolInv => SteadyUpstreamFound
  BY DEF PoolInv, SteadyUpstreamFound
<1> QED  BY <1>1, <1>2, PoolStep, PTL DEF PoolSpec
=============================================================================
