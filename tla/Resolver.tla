------------------------------ MODULE Resolver ------------------------------
(***************************************************************************)
(* dns-resolver: how a query that this server must resolve elsewhere is    *)
(* answered.  Many tasks run Resolver::resolve_pending at the same time;   *)
(* they share the response cache (module CacheContract) and the            *)
(* Singleflight map that lets one of them query for all.  Each step below  *)
(* is what a task does between two points at which another may run: a      *)
(* lock taken, an await, a send.                                           *)
(***************************************************************************)
EXTENDS Naturals

CONSTANTS
    Clients,       \* tasks, each resolving one client query at a time
    Keys,          \* (target name, type)
    Validating,    \* is a DNSSEC validator configured
    NoClient, NoKey, NoResult

ASSUME ResolverAssumption ==
    /\ Validating \in BOOLEAN
    /\ NoClient \notin Clients
    /\ NoKey \notin Keys

(* A message from upstream, as far as caching and validation tell apart. *)
Messages ==
    [cacheable : BOOLEAN, verdict : {"Secure", "Insecure", "Bogus"}]

(* What a lookup returns and the cache stores: a message and its status. *)
Results == [msg : Messages, secure : BOOLEAN]

Result(m, s) == [msg |-> m, secure |-> s]

(* The bound of the for loop of resolve_external. *)
Rounds == 3

VARIABLES
    cache,      \* CacheContract's store
    inflight,   \* per key, the client whose channel is registered, or NoClient
    task        \* per client, where it is and what it holds

vars == <<cache, inflight, task>>

Store == INSTANCE CacheContract WITH
    Cacheable <- {r \in Results : r.msg.cacheable}, store <- cache

----------------------------------------------------------------------------
(***************************************************************************)
(* A task: its pc, the key it resolves, the round of the loop it is in,    *)
(* the leader it waits for, what it got and how the lookup ended.  A watch *)
(* channel is named after the leader that created it: it is sent on once,  *)
(* after its key was removed, and that send turns "on" of every receiver   *)
(* into NoClient.                                                          *)
(***************************************************************************)
Idle == [pc |-> "idle", key |-> NoKey, round |-> 0, on |-> NoClient,
         got |-> NoResult, how |-> "none"]

Leading == {"fetch", "validate", "insert", "remove", "send"}

(* The task of c goes on to pc, having got r, or ended the lookup like how. *)
Goto(c, pc) == task' = [task EXCEPT ![c] = [@ EXCEPT !.pc = pc]]
Got(c, pc, r) ==
    task' = [task EXCEPT ![c] = [@ EXCEPT !.pc = pc, !.got = r]]
Ended(c, pc, how, r) ==
    task' = [task EXCEPT ![c] = [@ EXCEPT !.pc = pc, !.how = how, !.got = r]]

Init ==
    /\ Store!Init
    /\ inflight = [k \in Keys |-> NoClient]
    /\ task = [c \in Clients |-> Idle]

(* A query comes in that no zone and no policy answers. *)
Ask(c, k) ==
    /\ task[c].pc = "idle"
    /\ task' = [task EXCEPT ![c] = [@ EXCEPT !.pc = "local", !.key = k]]
    /\ UNCHANGED <<cache, inflight>>

(* resolve_local tries the cache before it hands over a Pending. *)
LocalHit(c) ==
    /\ task[c].pc = "local"
    /\ Store!Fresh(task[c].key)
    /\ Ended(c, "answer", "cache", cache[task[c].key].resp)
    /\ UNCHANGED <<cache, inflight>>

LocalMiss(c) ==
    /\ task[c].pc = "local"
    /\ ~Store!Fresh(task[c].key)
    /\ Goto(c, "lookup")
    /\ UNCHANGED <<cache, inflight>>

(* The head of the loop of resolve_external: three rounds, cache first. *)
LookupHit(c) ==
    /\ task[c].pc = "lookup" /\ task[c].round < Rounds
    /\ Store!Fresh(task[c].key)
    /\ Ended(c, "answer", "cache", cache[task[c].key].resp)
    /\ UNCHANGED <<cache, inflight>>

LookupMiss(c) ==
    /\ task[c].pc = "lookup" /\ task[c].round < Rounds
    /\ ~Store!Fresh(task[c].key)
    /\ Goto(c, "begin")
    /\ UNCHANGED <<cache, inflight>>

(* Singleflight::begin, one critical section of its mutex. *)
BeginLeader(c) ==
    /\ task[c].pc = "begin"
    /\ inflight[task[c].key] = NoClient
    /\ inflight' = [inflight EXCEPT ![task[c].key] = c]
    /\ Goto(c, "fetch")
    /\ UNCHANGED cache

BeginFollower(c) ==
    /\ task[c].pc = "begin"
    /\ inflight[task[c].key] # NoClient
    /\ task' = [task EXCEPT ![c] =
                   [@ EXCEPT !.pc = "wait", !.on = inflight[task[c].key]]]
    /\ UNCHANGED <<cache, inflight>>

(* Mutant of WakeFollower: the round is not counted. *)
WakeFollowerUncounted(c) ==
    /\ task[c].pc = "wait" /\ task[c].on = NoClient
    /\ Goto(c, "lookup")
    /\ UNCHANGED <<cache, inflight>>

(* rx.wait_for(done) returns; the loop goes round. *)
WakeFollower(c) ==
    /\ task[c].pc = "wait" /\ task[c].on = NoClient
    /\ task' = [task EXCEPT ![c] =
                   [@ EXCEPT !.pc = "lookup", !.round = task[c].round + 1]]
    /\ UNCHANGED <<cache, inflight>>

----------------------------------------------------------------------------
(* The leader's upstream query fails, or answers with some message. *)
FetchFails(c) ==
    /\ task[c].pc = "fetch"
    /\ Ended(c, "remove", "error", NoResult)
    /\ UNCHANGED <<cache, inflight>>

FetchAnswers(c) ==
    /\ task[c].pc = "fetch"
    /\ \E m \in Messages :
           Got(c, IF Validating THEN "validate" ELSE "insert", Result(m, FALSE))
    /\ UNCHANGED <<cache, inflight>>

(* Mutant of Validate: a bogus answer is taken for an insecure one. *)
ValidateLenient(c) ==
    LET m == task[c].got.msg
    IN  /\ task[c].pc = "validate"
        /\ Got(c, "insert", Result(m, m.verdict = "Secure"))
        /\ UNCHANGED <<cache, inflight>>

(* Validator::validate awaits upstream queries of its own. *)
Validate(c) ==
    LET m == task[c].got.msg
    IN  /\ task[c].pc = "validate"
        /\ IF m.verdict = "Bogus"
           THEN Ended(c, "remove", "bogus", NoResult)
           ELSE Got(c, "insert", Result(m, m.verdict = "Secure"))
        /\ UNCHANGED <<cache, inflight>>

(* cache.insert, which turns an uncacheable message away. *)
InsertAnswer(c) ==
    LET r == task[c].got
    IN  /\ task[c].pc = "insert"
        /\ IF r.msg.cacheable THEN Store!Insert(task[c].key, r)
                              ELSE UNCHANGED cache
        /\ Ended(c, "remove", "upstream", r)
        /\ UNCHANGED inflight

(* Mutant of RemoveFlight: the key stays in the map. *)
RemoveFlightForgotten(c) ==
    /\ task[c].pc = "remove"
    /\ Goto(c, "send")
    /\ UNCHANGED <<cache, inflight>>

(* FlightGuard::drop, on every way out: remove the key, then wake. *)
RemoveFlight(c) ==
    /\ task[c].pc = "remove"
    /\ inflight' = [inflight EXCEPT ![task[c].key] = NoClient]
    /\ Goto(c, "send")
    /\ UNCHANGED cache

(* Where resolve_pending goes on with what resolve_external returned. *)
Resume(t) == IF t.how = "error" THEN "outage" ELSE "answer"

SendDone(c) ==
    /\ task[c].pc = "send"
    /\ task' = [d \in Clients |->
                   IF d = c THEN [task[d] EXCEPT !.pc = Resume(task[c])]
                   ELSE IF task[d].on = c THEN [task[d] EXCEPT !.on = NoClient]
                   ELSE task[d]]
    /\ UNCHANGED <<cache, inflight>>

----------------------------------------------------------------------------
(***************************************************************************)
(* After three rounds a follower asks upstream itself: outside the flight, *)
(* without validation, and without caching what it gets.                   *)
(***************************************************************************)
DirectAnswers(c) ==
    /\ task[c].pc = "lookup" /\ task[c].round = Rounds
    /\ \E m \in Messages : Ended(c, "answer", "direct", Result(m, FALSE))
    /\ UNCHANGED <<cache, inflight>>

DirectFails(c) ==
    /\ task[c].pc = "lookup" /\ task[c].round = Rounds
    /\ Ended(c, "outage", "error", NoResult)
    /\ UNCHANGED <<cache, inflight>>

(* resolve_pending after an upstream failure: serve stale, or SERVFAIL. *)
ServeStale(c) ==
    /\ task[c].pc = "outage"
    /\ Store!Stale(task[c].key)
    /\ Ended(c, "answer", "stale", cache[task[c].key].resp)
    /\ UNCHANGED <<cache, inflight>>

ServFail(c) ==
    /\ task[c].pc = "outage"
    /\ ~Store!Stale(task[c].key)
    /\ Ended(c, "answer", "servfail", NoResult)
    /\ UNCHANGED <<cache, inflight>>

(* The response is sent and the task is over. *)
Reply(c) ==
    /\ task[c].pc = "answer"
    /\ task' = [task EXCEPT ![c] = Idle]
    /\ UNCHANGED <<cache, inflight>>

CacheDecays == Store!Decay /\ UNCHANGED <<inflight, task>>

----------------------------------------------------------------------------
Lead(c) ==
    \/ FetchFails(c) \/ FetchAnswers(c) \/ Validate(c)
    \/ InsertAnswer(c) \/ RemoveFlight(c) \/ SendDone(c)

Progress(c) ==
    \/ LocalHit(c) \/ LocalMiss(c)
    \/ LookupHit(c) \/ LookupMiss(c)
    \/ BeginLeader(c) \/ BeginFollower(c) \/ WakeFollower(c)
    \/ Lead(c)
    \/ DirectAnswers(c) \/ DirectFails(c)
    \/ ServeStale(c) \/ ServFail(c)
    \/ Reply(c)

Next ==
    \/ \E c \in Clients : Progress(c)
    \/ \E c \in Clients, k \in Keys : Ask(c, k)
    \/ CacheDecays

Spec == Init /\ [][Next]_vars

(***************************************************************************)
(* The runtime polls every task that can go on, and an upstream query ends *)
(* (every exchange has a timeout).  Clients need not ask again.            *)
(***************************************************************************)
FairSpec == Spec /\ \A c \in Clients : WF_vars(Progress(c))

----------------------------------------------------------------------------
Pcs == Leading \cup {"idle", "local", "lookup", "begin", "wait", "outage", "answer"}

Endings == {"none", "cache", "upstream", "direct", "stale", "error", "bogus", "servfail"}

Tasks ==
    [pc : Pcs, key : Keys \cup {NoKey}, round : 0..Rounds,
     on : Clients \cup {NoClient}, got : Results \cup {NoResult}, how : Endings]

TypeOK ==
    /\ Store!TypeOK
    /\ inflight \in [Keys -> Clients \cup {NoClient}]
    /\ task \in [Clients -> Tasks]
    /\ \A c \in Clients : task[c].pc # "idle" => task[c].key \in Keys

(***************************************************************************)
(* Cache-stampede protection: of the tasks that query upstream for a key   *)
(* under the flight, there is one at a time (Singleflight::begin, and the  *)
(* guard a leader holds until its answer is in the cache).                 *)
(***************************************************************************)
OneLeaderPerKey ==
    \A c, d \in Clients :
        /\ task[c].pc \in Leading \ {"send"}
        /\ task[d].pc \in Leading \ {"send"}
        /\ task[c].key = task[d].key
        => c = d

(***************************************************************************)
(* No lost wake-up: whoever waits on a channel waits for a task that still *)
(* holds the guard of a flight for the same key, so the send of its drop   *)
(* is still to come (flight.rs: remove the key before waking).             *)
(***************************************************************************)
NoOrphanedFollower ==
    \A c \in Clients :
        task[c].pc = "wait" /\ task[c].on # NoClient =>
            /\ task[task[c].on].pc \in Leading
            /\ task[task[c].on].key = task[c].key

(* The two together: a key has one leader, who still has to wake all that  *)
(* wait for it.                                                            *)
FlightSound == OneLeaderPerKey /\ NoOrphanedFollower

(***************************************************************************)
(* With a validator, nothing bogus is ever cached, and what is cached or   *)
(* answered as secure (the AD bit, kept across fresh and stale hits and    *)
(* across followers) was validated as secure.                              *)
(***************************************************************************)
AuthenticData ==
    /\ \A k \in Keys : cache[k].age # "gone" =>
           /\ Validating => cache[k].resp.msg.verdict # "Bogus"
           /\ cache[k].resp.secure => cache[k].resp.msg.verdict = "Secure"
    /\ \A c \in Clients :
           task[c].pc = "answer" /\ task[c].got # NoResult /\ task[c].got.secure
               => Validating /\ task[c].got.msg.verdict = "Secure"

(***************************************************************************)
(* Every query that reaches the resolver is answered: leaders come and go, *)
(* answers are uncacheable or fail, entries decay under the followers, and *)
(* still nobody waits for ever (the loop of resolve_external is bounded).  *)
(***************************************************************************)
EveryQueryAnswered ==
    \A c \in Clients : task[c].pc = "local" ~> task[c].pc = "answer"

(***************************************************************************)
(* README: forged or broken chains return SERVFAIL.  With a validator, no  *)
(* client is answered with a message that validation would call bogus.     *)
(***************************************************************************)
BogusNeverAnswered ==
    \A c \in Clients :
        Validating /\ task[c].pc = "answer" /\ task[c].got # NoResult
            => task[c].got.msg.verdict # "Bogus"

(***************************************************************************)
(* flight.rs:1-2: concurrent identical lookups are merged so one upstream  *)
(* query serves them all.  A leader would then never query for a key whose *)
(* answer an earlier leader has just cached.                               *)
(***************************************************************************)
OneQueryServesAll ==
    \A c \in Clients : task[c].pc = "fetch" => ~Store!Fresh(task[c].key)
=============================================================================
