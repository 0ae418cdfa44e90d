------------------------------- MODULE Cache -------------------------------
(***************************************************************************)
(* dns-cache: the TTL-aware response cache.  Every operation reads the     *)
(* clock first and takes the lock afterwards, and Cache::get gives up its  *)
(* read lock before it takes the write lock to evict, so a call is several *)
(* steps here.  Time is counted in ticks, several to the second, because   *)
(* TTLs are whole seconds and Instant is not.                              *)
(***************************************************************************)
EXTENDS Integers, FiniteSets, FiniteSetsExt

CONSTANTS
    Keys,
    Threads,             \* tasks that call into the cache
    Responses,           \* what upstreams may hand to Cache::insert
    MaxEntries,          \* the capacity the cache is configured with
    TicksPerSecond,
    MaxPositiveTtl, MaxNegativeTtl, DefaultNegativeTtl, \* seconds
    StaleWindow,         \* ticks
    MaxTime              \* bound on the clock, for model checking

NoSoa == [minimum |-> -1, ttl |-> -1]

ResponseType ==
    [rcode : {"NOERROR", "NXDOMAIN", "SERVFAIL"},
     answers : SUBSET Nat,        \* the TTLs of the answer records
     authorities : SUBSET Nat,    \* and of the authority records, the SOA too
     soa : {NoSoa} \cup [minimum : Nat, ttl : Nat],
     secure : BOOLEAN]

ASSUME CacheAssumption ==
    /\ MaxEntries \in Nat
    /\ TicksPerSecond \in Nat \ {0}
    /\ {MaxPositiveTtl, MaxNegativeTtl, DefaultNegativeTtl,
        StaleWindow, MaxTime} \subseteq Nat
    /\ IsFiniteSet(Keys)
    /\ \A r \in Responses : r \in ResponseType /\ IsFiniteSet(r.answers)

VARIABLES
    now,      \* the monotonic clock
    map,      \* inner: RwLock<HashMap<Key, Entry>>
    call      \* what each thread is doing in the cache, or the Hit it was handed

vars == <<now, map, call>>

----------------------------------------------------------------------------
(* Cache::new keeps room for at least one entry. *)
Capacity == Max({MaxEntries, 1})

(* The lifetime Cache::insert gives a response, in seconds. *)
EntryTtl(r) ==
    IF r.answers # {}
    THEN Min({Min(r.answers), MaxPositiveTtl})
    ELSE Min({MaxNegativeTtl,
              IF r.soa = NoSoa THEN DefaultNegativeTtl
                               ELSE Min({r.soa.minimum, r.soa.ttl})})

IsCacheable(r) == r.rcode \in {"NOERROR", "NXDOMAIN"} /\ EntryTtl(r) > 0

NoEntry == [stored |-> -1]

Entry(r, t) ==
    [resp |-> r, stored |-> t, expires |-> t + TicksPerSecond * EntryTtl(r)]

Present == {k \in Keys : map[k] # NoEntry}

PastWindow(e, t) == t > e.expires + StaleWindow

(* Mutant of ServedTtl: the time in the cache is not taken off. *)
ServedTtlUnaged(e, ttl, t) == ttl

(* The TTL a record of the entry is served with at time t. *)
ServedTtl(e, ttl, t) ==
    LET elapsed == IF t > e.stored THEN (t - e.stored) \div TicksPerSecond ELSE 0
    IN  Max({ttl - elapsed, 1})

----------------------------------------------------------------------------
Idle == [pc |-> "idle"]

Init ==
    /\ now = 0
    /\ map = [k \in Keys |-> NoEntry]
    /\ call = [t \in Threads |-> Idle]

Tick ==
    /\ now < MaxTime
    /\ now' = now + 1
    /\ UNCHANGED <<map, call>>

(* A call begins by reading the clock. *)
Call(t, c) ==
    /\ call[t] = Idle
    /\ call' = [call EXCEPT ![t] = c]
    /\ UNCHANGED <<now, map>>

BeginGet(t, k) == Call(t, [pc |-> "get", key |-> k, at |-> now])

BeginGetStale(t, k) == Call(t, [pc |-> "stale", key |-> k, at |-> now])

(* Mutant of BeginInsert: neither the rcode nor the TTL is looked at. *)
BeginInsertUnchecked(t, k, r) ==
    Call(t, [pc |-> "insert", key |-> k, at |-> now, resp |-> r])

(* Responses that may not be cached return before the clock is read. *)
BeginInsert(t, k, r) ==
    IsCacheable(r) /\ Call(t, [pc |-> "insert", key |-> k, at |-> now, resp |-> r])

Goto(t, c) == call' = [call EXCEPT ![t] = c]

FreshHit(e, t) ==
    [pc |-> "fresh", entry |-> e, at |-> t,
     ttl |-> [x \in e.resp.answers \cup e.resp.authorities |-> ServedTtl(e, x, t)]]

(* Cache::get under the read lock. *)
GetRead(t) ==
    LET c == call[t]
        e == map[c.key]
    IN  /\ c.pc = "get"
        /\ \/ /\ e = NoEntry
              /\ Goto(t, Idle)
           \/ /\ e # NoEntry /\ e.expires > c.at
              /\ Goto(t, FreshHit(e, c.at))
           \/ /\ e # NoEntry /\ e.expires <= c.at /\ ~PastWindow(e, c.at)
              /\ Goto(t, Idle)
           \/ /\ e # NoEntry /\ PastWindow(e, c.at)
              /\ Goto(t, [c EXCEPT !.pc = "remove"])
        /\ UNCHANGED <<now, map>>

(* ... and, after it was given up, under the write lock. *)
GetRemove(t) ==
    /\ call[t].pc = "remove"
    /\ map' = [map EXCEPT ![call[t].key] = NoEntry]
    /\ Goto(t, Idle)
    /\ UNCHANGED now

StaleRead(t) ==
    LET c == call[t]
        e == map[c.key]
        usable == e # NoEntry /\ c.at > e.expires /\ ~PastWindow(e, c.at)
    IN  /\ c.pc = "stale"
        /\ Goto(t, IF usable THEN [pc |-> "outage", entry |-> e, at |-> c.at]
                             ELSE Idle)
        /\ UNCHANGED <<now, map>>

(* The caller is through with the Hit it was handed. *)
UseHit(t) ==
    /\ call[t].pc \in {"fresh", "outage"}
    /\ Goto(t, Idle)
    /\ UNCHANGED <<now, map>>

(* Mutant of Survivors: only entries past the window make room. *)
SurvivorsPurgeOnly(k, at) ==
    {IF Cardinality(Present) < Capacity \/ k \in Present
     THEN Present
     ELSE {j \in Present : ~PastWindow(map[j], at)}}

(***************************************************************************)
(* Making room: a full cache drops what is past the stale window and, if   *)
(* it is still full, an arbitrary tenth of its capacity plus one.          *)
(***************************************************************************)
Survivors(k, at) ==
    IF Cardinality(Present) < Capacity \/ k \in Present
    THEN {Present}
    ELSE LET kept == {j \in Present : ~PastWindow(map[j], at)}
             shed == Capacity \div 10 + 1
         IN  IF Cardinality(kept) < Capacity
             THEN {kept}
             ELSE {kept \ v : v \in {w \in SUBSET kept :
                     Cardinality(w) = Min({shed, Cardinality(kept)})}}

InsertCommit(t) ==
    LET c == call[t]
    IN  /\ c.pc = "insert"
        /\ \E live \in Survivors(c.key, c.at) :
               map' = [k \in Keys |-> IF k = c.key THEN Entry(c.resp, c.at)
                                      ELSE IF k \in live THEN map[k] ELSE NoEntry]
        /\ Goto(t, Idle)
        /\ UNCHANGED now

Step(t) ==
    \/ \E k \in Keys : BeginGet(t, k) \/ BeginGetStale(t, k)
    \/ \E k \in Keys, r \in Responses : BeginInsert(t, k, r)
    \/ GetRead(t)
    \/ GetRemove(t)
    \/ StaleRead(t)
    \/ UseHit(t)
    \/ InsertCommit(t)

Next == Tick \/ \E t \in Threads : Step(t)

Spec == Init /\ [][Next]_vars

----------------------------------------------------------------------------
Entries == [resp : Responses, stored : Nat, expires : Nat]

TypeOK ==
    /\ now \in Nat
    /\ map \in [Keys -> Entries \cup {NoEntry}]
    /\ \A t \in Threads :
           \/ call[t] = Idle
           \/ call[t] \in [pc : {"get", "remove", "stale"}, key : Keys, at : Nat]
           \/ call[t] \in [pc : {"insert"}, key : Keys, at : Nat, resp : Responses]
           \/ call[t] \in [pc : {"outage"}, entry : Entries, at : Nat]
           \/ /\ call[t].pc = "fresh"
              /\ call[t].entry \in Entries /\ call[t].at \in Nat
              /\ call[t].ttl \in [call[t].entry.resp.answers \cup call[t].entry.resp.authorities
                                    -> Nat \ {0}]

(***************************************************************************)
(* The map never outgrows max_entries, however inserts of different        *)
(* threads interleave with evictions (Cache::insert makes room and inserts *)
(* under one write lock).                                                  *)
(***************************************************************************)
WithinCapacity == Cardinality(Present) <= Capacity

(* The hit c tells its client to keep the record fetched with the TTL x    *)
(* until less than a second after a record of that TTL would have expired. *)
KeptFor(c, x, ttl) ==
    c.at + TicksPerSecond * c.ttl[x] < c.entry.stored + TicksPerSecond * (ttl + 1)

(***************************************************************************)
(* An answer record served from the cache never outlives the TTL it was    *)
(* fetched with by a full second, although Cache::get rounds the time      *)
(* spent in the cache down to seconds and never serves a TTL of zero.  An  *)
(* authority record outlives neither its own TTL nor the lifetime of the   *)
(* response it came with, whichever is longer: the answers alone set that  *)
(* lifetime (Cache::insert), so it may be the longer one.                  *)
(***************************************************************************)
ServedTtlHonest ==
    \A t \in Threads : call[t].pc = "fresh" =>
        LET r == call[t].entry.resp
        IN  /\ \A x \in r.answers : KeptFor(call[t], x, x)
            /\ \A x \in r.authorities : KeptFor(call[t], x, Max({x, EntryTtl(r)}))

(* What ServedTtlHonest says of answers, said of the authority records. *)
AuthorityTtlHonest ==
    \A t \in Threads : call[t].pc = "fresh" =>
        \A x \in call[t].entry.resp.authorities : KeptFor(call[t], x, x)

(***************************************************************************)
(* dns-cache/src/lib.rs:74-75 says that expired entries are kept for the   *)
(* serve-stale window and only evicted once past it.  Cache::get decides   *)
(* under the read lock and removes under the write lock: what it is about  *)
(* to remove would have to be still past the window.                       *)
(***************************************************************************)
EvictsOnlyPastWindow ==
    \A t \in Threads :
        call[t].pc = "remove" /\ map[call[t].key] # NoEntry
            => PastWindow(map[call[t].key], now)

(* What a key looks like to the resolver: the state the contract is about. *)
Aged(e, t) ==
    IF e = NoEntry \/ PastWindow(e, t) THEN [age |-> "gone"]
    ELSE [age |-> IF e.expires > t THEN "fresh" ELSE "stale", resp |-> e.resp]

View == [k \in Keys |-> Aged(map[k], now)]

Contract == INSTANCE CacheContract WITH
    Cacheable <- {r \in Responses : IsCacheable(r)}, store <- View

(***************************************************************************)
(* The cache keeps its contract: seen from outside, a key's response only  *)
(* decays until the next insert, whatever the threads and the clock do.    *)
(***************************************************************************)
KeepsContract == Contract!Spec
=============================================================================
