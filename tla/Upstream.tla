------------------------------ MODULE Upstream ------------------------------
(***************************************************************************)
(* dns-resolver's UpstreamPool: every query starts at the preferred        *)
(* upstream, goes round the pool until one answers, and makes that one     *)
(* preferred.  Each upstream gets two UDP attempts; a truncated reply is   *)
(* fetched again over TCP.  Queries run concurrently and share nothing but *)
(* the index of the preferred upstream; upstreams go down and come back.   *)
(***************************************************************************)
EXTENDS Naturals

CONSTANTS
    Tasks,         \* concurrent UpstreamPool::query calls
    PoolSize,      \* addrs.len()
    Attempts,      \* UPSTREAM_ATTEMPTS
    MaxFlips,      \* bound on upstreams going down or coming back
    MaxLosses      \* bound on exchanges an upstream that is up fails

ASSUME UpstreamAssumption ==
    /\ {PoolSize, Attempts} \subseteq Nat \ {0}
    /\ {MaxFlips, MaxLosses} \subseteq Nat

VARIABLES
    alive,        \* the upstreams that answer
    preferred,    \* UpstreamPool.preferred
    task,         \* per task: pc, start index, loop index, UDP attempt
    steady,       \* history: per task, the upstreams that were up and failed
                  \* none of its exchanges since it started
    flips, losses

poolVars == <<alive, preferred, task, steady, flips, losses>>

Pool == 0..(PoolSize - 1)

NoQuery == [pc |-> "idle", start |-> 0, i |-> 0, attempt |-> 0]

(* Mutant of Current: the pool is not taken round. *)
CurrentClamped(t) ==
    IF task[t].start + task[t].i < PoolSize THEN task[t].start + task[t].i
                                            ELSE PoolSize - 1

(* The upstream the loop of query_inner has come to. *)
Current(t) == (task[t].start + task[t].i) % PoolSize

QueryAt(t, pc) == task' = [task EXCEPT ![t] = [@ EXCEPT !.pc = pc]]

PoolInit ==
    /\ alive \in SUBSET Pool
    /\ preferred = 0
    /\ task = [t \in Tasks |-> NoQuery]
    /\ steady = [t \in Tasks |-> {}]
    /\ flips = 0 /\ losses = 0

Flip(u) ==
    /\ flips < MaxFlips
    /\ flips' = flips + 1
    /\ alive' = IF u \in alive THEN alive \ {u} ELSE alive \cup {u}
    /\ steady' = [t \in Tasks |-> steady[t] \ {u}]
    /\ UNCHANGED <<preferred, task, losses>>

----------------------------------------------------------------------------
Begin(t) ==
    /\ task[t].pc = "idle"
    /\ task' = [task EXCEPT ![t] = [NoQuery EXCEPT !.pc = "udp", !.start = preferred]]
    /\ steady' = [steady EXCEPT ![t] = alive]
    /\ UNCHANGED <<alive, preferred, flips, losses>>

(* A reply in time; only after a failover is the preference changed. *)
Reply(t) ==
    /\ task[t].pc \in {"udp", "tcp"}
    /\ Current(t) \in alive
    /\ QueryAt(t, IF task[t].i > 0 THEN "store" ELSE "answered")
    /\ UNCHANGED <<alive, preferred, steady, flips, losses>>

Truncated(t) ==
    /\ task[t].pc = "udp"
    /\ Current(t) \in alive
    /\ QueryAt(t, "tcp")
    /\ UNCHANGED <<alive, preferred, steady, flips, losses>>

(* Mutant of NextUpstream: the loop ends one upstream early. *)
NextUpstreamShort(t) ==
    IF task[t].i + 2 < PoolSize
    THEN [task[t] EXCEPT !.pc = "udp", !.i = @ + 1, !.attempt = 0]
    ELSE [task[t] EXCEPT !.pc = "failed"]

NextUpstream(t) ==
    IF task[t].i + 1 < PoolSize
    THEN [task[t] EXCEPT !.pc = "udp", !.i = @ + 1, !.attempt = 0]
    ELSE [task[t] EXCEPT !.pc = "failed"]

(* forward_query's attempts, and no second one once TCP was tried. *)
Fail(t) ==
    task' = [task EXCEPT ![t] =
                IF task[t].pc = "udp" /\ task[t].attempt + 1 < Attempts
                THEN [task[t] EXCEPT !.attempt = @ + 1]
                ELSE NextUpstream(t)]

(* The upstream is down: an I/O error or a timeout. *)
NoAnswer(t) ==
    /\ task[t].pc \in {"udp", "tcp"}
    /\ Current(t) \notin alive
    /\ Fail(t)
    /\ UNCHANGED <<alive, preferred, steady, flips, losses>>

(* It is up, but the exchange breaks off or a datagram is lost or late. *)
Lost(t) ==
    /\ task[t].pc \in {"udp", "tcp"}
    /\ Current(t) \in alive
    /\ losses < MaxLosses
    /\ losses' = losses + 1
    /\ steady' = [steady EXCEPT ![t] = @ \ {Current(t)}]
    /\ Fail(t)
    /\ UNCHANGED <<alive, preferred, flips>>

(* Mutant of StorePreferred: the loop index is stored. *)
StorePreferredIndex(t) ==
    /\ task[t].pc = "store"
    /\ preferred' = task[t].i
    /\ QueryAt(t, "answered")
    /\ UNCHANGED <<alive, steady, flips, losses>>

StorePreferred(t) ==
    /\ task[t].pc = "store"
    /\ preferred' = Current(t)
    /\ QueryAt(t, "answered")
    /\ UNCHANGED <<alive, steady, flips, losses>>

Return(t) ==
    /\ task[t].pc \in {"answered", "failed"}
    /\ task' = [task EXCEPT ![t] = NoQuery]
    /\ steady' = [steady EXCEPT ![t] = {}]
    /\ UNCHANGED <<alive, preferred, flips, losses>>

QueryStep(t) ==
    \/ Reply(t) \/ Truncated(t) \/ NoAnswer(t) \/ Lost(t)
    \/ StorePreferred(t) \/ Return(t)

PoolNext ==
    \/ \E u \in Pool : Flip(u)
    \/ \E t \in Tasks : Begin(t) \/ QueryStep(t)

PoolSpec == PoolInit /\ [][PoolNext]_poolVars

(* Tasks go on, exchanges end (they have timeouts), and queries keep coming. *)
PoolFairSpec == PoolSpec /\ \A t \in Tasks : WF_poolVars(QueryStep(t)) /\ WF_poolVars(Begin(t))

----------------------------------------------------------------------------
PoolTypeOK ==
    /\ alive \subseteq Pool
    /\ preferred \in Pool
    /\ task \in [Tasks -> [pc : {"idle", "udp", "tcp", "store", "answered", "failed"},
                           start : Pool, i : Pool, attempt : 0..(Attempts - 1)]]
    /\ steady \in [Tasks -> SUBSET Pool]
    /\ flips \in 0..MaxFlips /\ losses \in 0..MaxLosses

(***************************************************************************)
(* A query fails only if no upstream was up all along: wherever it starts  *)
(* and whatever other queries make of the preference, it finds an upstream *)
(* that answers (query_inner asks every upstream of the pool).             *)
(***************************************************************************)
SteadyUpstreamFound ==
    \A t \in Tasks : task[t].pc = "failed" => steady[t] = {}

(***************************************************************************)
(* Once upstreams stop going down and coming back, the preferred one comes *)
(* to be one that answers, if there is any, and it stays so: a task that   *)
(* was slow to store its own choice cannot undo that for good.             *)
(***************************************************************************)
SettlesOnLiveUpstream == <>[](alive # {} => preferred \in alive)
=============================================================================
