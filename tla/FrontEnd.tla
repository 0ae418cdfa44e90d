------------------------------ MODULE FrontEnd ------------------------------
(***************************************************************************)
(* How rdns answers a query: the UDP workers and the stream connections of *)
(* server.rs (rate limiting, malformed messages, NOTIFY, cookies, the size *)
(* limit), and Resolver::resolve_local, which decides in a fixed order     *)
(* whether a zone, the response policy, the cache or an upstream answers.  *)
(* Transfers and updates are in Transfers, the upstream traffic behind a   *)
(* pending answer in Resolver, Zone::lookup in ZoneData.                   *)
(*                                                                         *)
(* The clients follow RFC 7873 and RFC 1035: they keep the cookie they got *)
(* last, repeat a query that was challenged or went unanswered, and repeat *)
(* a truncated one over a stream.  Their address may change.  Datagrams    *)
(* may be lost or delayed, and the server may restart.                     *)
(***************************************************************************)
EXTENDS Cookie, Acl, Sequences, FiniteSets

CONSTANTS
    Clients, Addresses, Home,   \* Home: the first address of a client
    Allowed,       \* recursion.allow
    Views,         \* a sequence of [acl, zones]
    Zones,         \* the default zones: [origin, data], see Lookup
    Signed,        \* the origins signed online
    Forwards,      \* the names with a conditional forward
    Upstream,      \* whether there is a default pool or a recursor
    Secondaries,   \* the origins of secondary zones
    FirstPolicy,   \* the response policy at the start
    Policies,      \* those the RPZ file may hold later
    Asks,          \* the messages clients send, by name, see ResolveLocal: none is
                   \* an update, a transfer or shorter than a message ID
    Requiring,     \* the values of cookies.require (cookies are enabled)
    Payload,       \* the largest UDP reply, in units of the classic 512 octets
    Start,         \* the time when the server starts
    Delays,        \* the times that may pass between two steps
    MaxAsks,       \* the queries asked
    MaxDisturbed   \* losses, early retries, restarts, moves, delays, reloads

ASSUME ClockAssumption == Start \in Nat /\ Delays \subseteq Nat

AllZones == Zones \cup UNION {Views[i].zones : i \in DOMAIN Views}

(* A view is told apart from the other sources of an answer, and a CNAME   *)
(* that leaves the zone does not lead to its own name.                     *)
ASSUME ZonesAssumption ==
    \A z \in AllZones :
        /\ z.view \notin {"none", "rpz", "cache", "upstream"}
        /\ \A n \in DOMAIN z.data : z.data[n].offsite # n

VARIABLES
    requireCookie, \* ServerCtx.require_cookie
    clock,         \* seconds
    secret,        \* the cookie key of this process
    cache,         \* the names in the resolver's cache
    rpz,           \* Resolver.rpz: a function from names to actions
    inbox,         \* messages on their way to the server
    tasks,         \* answers waiting for upstream traffic
    replies,       \* messages on their way to the clients
    client,        \* per client: address, cookie, the query it waits for
    asked,         \* the queries asked so far
    disturbed      \* what disturbed them so far, see MaxDisturbed

frontVars == <<requireCookie, clock, secret, cache, rpz, inbox, tasks, replies, client, asked, disturbed>>

(* unix_now() as u32 *)
Now == clock % TimeSpace
NoName == <<"">>     \* no name has an empty label

(***************************************************************************)
(* Resolver::resolve_local.  A response is where its content comes from    *)
(* and the types in its sections; "body" is its size without DNSSEC types, *)
(* "policy" the names that had a rule when the query was looked at, and    *)
(* "resolved" the name that was looked up for the client, if any.          *)
(***************************************************************************)
Longest(names) == CHOOSE n \in names : \A m \in names : Len(m) <= Len(n)
Above(names, n) == names \cap {SubSeq(n, i, Len(n)) : i \in 1..(Len(n) + 1)}

Blank == [rcode |-> "NOERROR", from |-> "none", answers |-> {}, authority |-> {},
          body |-> 0, signer |-> "none", policy |-> DOMAIN rpz, resolved |-> NoName]
Rcode(r) == [Blank EXCEPT !.rcode = r]

(* forward_pool_for and can_recurse *)
CanRecurse(n) == Above(Forwards, n) # {} \/ Upstream

(* zones_for and find_zone *)
ZonesFor(ip) ==
    LET matching == {i \in DOMAIN Views : IsAllowed(Views[i].acl, ip)}
        first == {i \in matching : \A j \in matching : i <= j}
    IN IF matching = {} THEN Zones ELSE UNION {Views[i].zones : i \in first}

FindZone(zs, n) ==
    LET origins == Above({z.origin : z \in zs}, n)
    IN {z \in zs : origins # {} /\ z.origin = Longest(origins)}

(* The response to a query for a name of a zone, with the DNSSEC records a *)
(* client that set DO gets.  The signatures are those made for the origin. *)
(* A name has one record here; SignedZone has the DNSKEY and NSEC3PARAM    *)
(* answers made up at the apex.                                            *)
AttachDnssec(z, a, resp) ==
    IF ~a.do \/ z.origin \notin Signed THEN resp
    ELSE [resp EXCEPT !.answers = IF @ = {} THEN @ ELSE @ \cup {"RRSIG"},
                      !.authority = IF @ = {} THEN @ ELSE @ \cup {"RRSIG", "NSEC"},
                      !.signer = "default"]

FromZone(z, a) ==
    LET known == a.name \in DOMAIN z.data
        hit == known /\ (a.qtype = "ANY" \/ z.data[a.name].type \in {a.qtype, "CNAME"})
        d == z.data[a.name]
    IN AttachDnssec(z, a,
          [Blank EXCEPT !.from = z.view,
                        !.rcode = IF known THEN "NOERROR" ELSE "NXDOMAIN",
                        !.answers = IF hit THEN {d.type} ELSE {},
                        !.body = IF hit THEN d.size ELSE 0,
                        !.authority = IF hit THEN {} ELSE {"SOA"}])

(* Rpz::lookup: the most specific rule at or above the name, never a rule  *)
(* for the root.                                                           *)
RpzRules(n) == Above(DOMAIN rpz, n) \ {<<>>}
RpzAnswer(a) ==
    IF rpz[Longest(RpzRules(a.name))] = "block" THEN [Rcode("NXDOMAIN") EXCEPT !.from = "rpz"]
    ELSE [Blank EXCEPT !.from = "rpz",
             !.answers = IF a.qtype \in {rpz[Longest(RpzRules(a.name))], "ANY"}
                         THEN {rpz[Longest(RpzRules(a.name))]} ELSE {}]

(* merge: what the cache or an upstream has for a name is added to the     *)
(* answers of a zone, or is the answer.                                    *)
Merge(resp, source, n, append) ==
    [resp EXCEPT !.from = source, !.resolved = n,
                 !.answers = (IF append THEN @ ELSE {}) \cup {"A", "RRSIG"},
                 !.body = IF append THEN @ + 1 ELSE 1]

(* What chaos_answer answers. *)
AsksVersion(a) == a.name \in {<<"version", "bind">>, <<"version", "server">>} /\ a.qtype \in {"TXT", "ANY"}

(* The early returns of resolve_local, in their order. *)
Checks(a) ==
    << <<a.version > 0, "BADVERS">>,
       <<a.opcode # "QUERY", "NOTIMP">>,
       <<a.questions # 1, "FORMERR">>,
       <<a.class = "CH" /\ AsksVersion(a), "NOERROR">>,
       <<a.class = "CH", "REFUSED">>,
       <<a.class \notin {"IN", "ANY"}, "NOTIMP">>,
       <<a.qtype \in {"AXFR", "IXFR"}, "NOTIMP">> >>
Failed(a) == {i \in DOMAIN Checks(a) : Checks(a)[i][1]}
FirstFailed(a) == Checks(a)[CHOOSE i \in Failed(a) : \A j \in Failed(a) : i <= j][2]

Answer(resp) == [pending |-> FALSE, resp |-> resp, target |-> NoName, append |-> FALSE]
Pending(resp, n, append) == [pending |-> TRUE, resp |-> resp, target |-> n, append |-> append]

Resolved(resp, n, append) ==
    IF n \in cache THEN Answer(Merge(resp, "cache", n, append)) ELSE Pending(resp, n, append)

(* Mutant of ResolveForClient: the cache is consulted first. *)
ResolveForClientCacheFirst(a, ip) ==
    CASE a.name \in cache -> Answer(Merge(Blank, "cache", a.name, FALSE))
      [] a.name \notin cache /\ RpzRules(a.name) # {} -> Answer(RpzAnswer(a))
      [] OTHER -> IF a.rd /\ CanRecurse(a.name) /\ IsAllowed(Allowed, ip)
                  THEN Pending(Blank, a.name, FALSE) ELSE Answer(Rcode("REFUSED"))

(* A name of no zone: policy, then whether the client may have it resolved. *)
ResolveForClient(a, ip) ==
    CASE RpzRules(a.name) # {} -> Answer(RpzAnswer(a))
      [] RpzRules(a.name) = {} /\ (~a.rd \/ ~CanRecurse(a.name)) -> Answer(Rcode("REFUSED"))
      [] OTHER -> IF ~IsAllowed(Allowed, ip) THEN Answer(Rcode("REFUSED"))
                  ELSE Resolved(Blank, a.name, FALSE)

(* A name of a zone; a CNAME out of the zone is followed if the client may *)
(* use recursion.                                                          *)
ResolveInZone(z, a, ip) ==
    LET resp == FromZone(z, a)
        target == IF a.name \in DOMAIN z.data THEN z.data[a.name].offsite ELSE NoName
    IN IF target # NoName /\ a.rd /\ CanRecurse(target) /\ IsAllowed(Allowed, ip)
       THEN Resolved(resp, target, TRUE) ELSE Answer(resp)

ResolveLocal(a, ip) ==
    IF Failed(a) # {} THEN Answer(Rcode(FirstFailed(a)))
    ELSE IF FindZone(ZonesFor(ip), a.name) # {}
         THEN ResolveInZone(CHOOSE z \in FindZone(ZonesFor(ip), a.name) : TRUE, a, ip)
         ELSE ResolveForClient(a, ip)

(***************************************************************************)
(* server.rs: what is done to a response before it is sent.                *)
(***************************************************************************)
DnssecTypes == {"RRSIG", "NSEC", "NSEC3", "NSEC3PARAM", "DNSKEY", "DS"}

StripDnssecUnlessDo(resp, a) ==
    IF a.do THEN resp
    ELSE [resp EXCEPT !.answers = @ \ (DnssecTypes \ {a.qtype}),
                      !.authority = @ \ DnssecTypes]

Size(resp) ==
    resp.body + IF (resp.answers \cup resp.authority) \cap DnssecTypes # {} THEN 1 ELSE 0

Clamp(n, lo, hi) == IF n < lo THEN lo ELSE IF n > hi THEN hi ELSE n

(* The limit of finish_udp; there is none on a stream. *)
UdpLimit(a) == IF a.edns THEN Clamp(a.payload, 1, Payload) ELSE 1

Fits(resp, m) == m.via = "stream" \/ Size(resp) <= UdpLimit(Asks[m.ask])

(* An option as it travels: with whom it was made for, and when. *)
Option(cookie, ip) == [cookie |-> cookie, to |-> ip, at |-> clock]
NoOption == [cookie |-> NoCookie, to |-> "none", at |-> 0]

(* attach_cookie: a new server cookie for a client that sent its half. *)
Attached(m) ==
    IF m.option.cookie.len < 8 THEN NoOption
    ELSE Option(Build(secret, m.option.cookie.client, m.src, Now), m.src)

Reply(m, resp, option) ==
    [via |-> m.via, dst |-> m.src, id |-> m.id, ask |-> m.ask, shown |-> m.option,
     resp |-> resp, tc |-> FALSE, option |-> option]

Truncated(r) == [r EXCEPT !.resp = [Blank EXCEPT !.rcode = r.resp.rcode], !.tc = TRUE]

Send(m, resp, option) ==
    \E r \in {Reply(m, resp, option)} :
       replies' = replies \cup {IF Fits(r.resp, m) THEN r ELSE Truncated(r)}

(* The end of handle_query_bytes, and finish_udp *)
Finish(m, resp) == Send(m, StripDnssecUnlessDo(resp, Asks[m.ask]), Attached(m))

(***************************************************************************)
(* The server's steps.                                                     *)
(***************************************************************************)
Disturb == disturbed < MaxDisturbed /\ disturbed' = disturbed + 1
Take(m) == m \in inbox /\ inbox' = inbox \ {m}

(* The limiter has no token for the address: the datagram is dropped, a    *)
(* stream is closed.                                                       *)
RateLimited(m) ==
    /\ Take(m)
    /\ Disturb
    /\ UNCHANGED <<requireCookie, clock, secret, cache, rpz, tasks, replies,
                   client, asked>>

(* formerr_reply *)
Unparseable(m) ==
    /\ Take(m)
    /\ ~Asks[m.ask].parses
    /\ Send(m, Rcode("FORMERR"), NoOption)
    /\ UNCHANGED <<requireCookie, clock, secret, cache, rpz, tasks, client,
                   asked, disturbed>>

(* A NOTIFY by UDP; on a stream it is a query with an unknown opcode. *)
Notified(m) ==
    /\ Take(m)
    /\ Asks[m.ask].parses /\ m.via = "udp" /\ Asks[m.ask].opcode = "NOTIFY"
    /\ Send(m, Rcode(IF Asks[m.ask].name \in Secondaries THEN "NOERROR" ELSE "REFUSED"), NoOption)
    /\ UNCHANGED <<requireCookie, clock, secret, cache, rpz, tasks, client,
                   asked, disturbed>>

IsQuery(m) == Asks[m.ask].parses /\ ~(m.via = "udp" /\ Asks[m.ask].opcode = "NOTIFY")

(* Mutant of ChallengeCookie: only a first contact gets a server cookie. *)
ChallengeCookieFirst(m) == IF m.option.cookie.len = 8 THEN Attached(m) ELSE NoOption

(* The cookie in a challenge: a new one for a client that sent its half. *)
ChallengeCookie(m) == Attached(m)

MustChallenge(m) ==
    requireCookie /\ m.via = "udp" /\ ~Accepted(secret, m.option.cookie, m.src, Now)

(* cookie_challenge *)
Challenged(m) ==
    /\ Take(m)
    /\ IsQuery(m)
    /\ MustChallenge(m)
    /\ Send(m, Rcode("BADCOOKIE"), ChallengeCookie(m))
    /\ UNCHANGED <<requireCookie, clock, secret, cache, rpz, tasks, client,
                   asked, disturbed>>

(* resolve_local answers, or a task waits for upstream traffic. *)
Answered(m) ==
    /\ Take(m)
    /\ IsQuery(m)
    /\ ~MustChallenge(m)
    /\ \E out \in {ResolveLocal(Asks[m.ask], m.src)} :
          IF out.pending
          THEN /\ tasks' = tasks \cup {[m |-> m, resp |-> out.resp, target |-> out.target,
                                        append |-> out.append]}
               /\ UNCHANGED replies
          ELSE Finish(m, out.resp) /\ UNCHANGED tasks
    /\ UNCHANGED <<requireCookie, clock, secret, cache, rpz, client, asked, disturbed>>

(* resolve_pending ends: with an answer, which is now in the cache unless  *)
(* it may not be kept or is what a stale entry still had, or with          *)
(* SERVFAIL, which keeps what the zone had.                                *)
PendingDone(t) ==
    /\ t \in tasks
    /\ tasks' = tasks \ {t}
    /\ \/ /\ cache' \in {cache, cache \cup {t.target}}
          /\ Finish(t.m, Merge(t.resp, "upstream", t.target, t.append))
       \/ /\ UNCHANGED cache
          /\ Finish(t.m, [t.resp EXCEPT !.rcode = "SERVFAIL"])
    /\ UNCHANGED <<requireCookie, clock, secret, rpz, inbox, client, asked, disturbed>>

(* SIGHUP reloads the policy; the zones are ZoneStore's. *)
ReloadRpz ==
    /\ rpz' \in Policies
    /\ Disturb
    /\ UNCHANGED <<requireCookie, clock, secret, cache, inbox, tasks, replies, client,
                   asked>>

Expire(n) ==
    /\ n \in cache
    /\ Disturb
    /\ cache' = cache \ {n}
    /\ UNCHANGED <<requireCookie, clock, secret, rpz, inbox, tasks, replies,
                   client, asked>>

(* A new process: another cookie key, nothing cached, no task, no stream,  *)
(* the policy as it was.                                                   *)
Restart ==
    /\ Disturb
    /\ secret' = secret + 1
    /\ cache' = {}
    /\ tasks' = {}
    /\ inbox' = {m \in inbox : m.via = "udp"}
    /\ replies' = {r \in replies : r.via = "udp"}
    /\ UNCHANGED <<requireCookie, clock, rpz, client, asked>>

(***************************************************************************)
(* The clients and the network.                                            *)
(***************************************************************************)
NoAsk == "none"

Message(k) ==
    [via |-> k.via, src |-> k.addr, id |-> k.id, ask |-> k.ask,
     option |-> IF Asks[k.ask].edns THEN k.jar ELSE NoOption]

Ask(c, a) ==
    /\ client[c].ask = NoAsk
    /\ asked < MaxAsks /\ asked' = asked + 1
    /\ client' = [client EXCEPT ![c].ask = a, ![c].id = asked', ![c].via = "udp"]
    /\ inbox' = inbox \cup {Message(client'[c])}
    /\ UNCHANGED <<requireCookie, clock, secret, cache, rpz, tasks, replies, disturbed>>

InFlight(id) == \/ \E m \in inbox \cup replies : m.id = id
                \/ \E t \in tasks : t.m.id = id

(* A client that waited long enough asks again: when its query or the      *)
(* reply is lost, or while they are still on their way.                    *)
Resend(c) ==
    /\ client[c].ask # NoAsk
    /\ IF InFlight(client[c].id) THEN Disturb ELSE UNCHANGED disturbed
    /\ inbox' = inbox \cup {Message(client[c])}
    /\ UNCHANGED <<requireCookie, clock, secret, cache, rpz, tasks, replies,
                   client, asked>>

Expected(c, r) ==
    /\ client[c].ask # NoAsk
    /\ client[c].addr = r.dst /\ client[c].id = r.id /\ client[c].via = r.via

Keep(c, r) == IF r.option = NoOption THEN client[c].jar ELSE r.option

(* A reply arrives.  A challenge and a truncated answer are followed by    *)
(* the same query, with the new cookie or on a stream.                     *)
GetReply(c, r) ==
    /\ r \in replies
    /\ Expected(c, r)
    /\ replies' = replies \ {r}
    /\ IF r.resp.rcode = "BADCOOKIE" \/ r.tc
       THEN /\ client' = [client EXCEPT ![c].jar = Keep(c, r),
                                        ![c].via = IF r.tc THEN "stream" ELSE @]
            /\ inbox' = inbox \cup {Message(client'[c])}
       ELSE /\ client' = [client EXCEPT ![c].jar = Keep(c, r), ![c].ask = NoAsk]
            /\ UNCHANGED inbox
    /\ UNCHANGED <<requireCookie, clock, secret, cache, rpz, tasks, asked, disturbed>>

(* A reply nobody waits for. *)
Discard(r) ==
    /\ r \in replies
    /\ \A c \in Clients : ~Expected(c, r)
    /\ replies' = replies \ {r}
    /\ UNCHANGED <<requireCookie, clock, secret, cache, rpz, inbox, tasks,
                   client, asked, disturbed>>

LoseReply(r) ==
    /\ r \in replies
    /\ r.via = "udp"
    /\ replies' = replies \ {r}
    /\ Disturb
    /\ UNCHANGED <<requireCookie, clock, secret, cache, rpz, inbox, tasks, client, asked>>

Move(c, ip) ==
    /\ ip # client[c].addr
    /\ Disturb
    /\ client' = [client EXCEPT ![c].addr = ip]
    /\ UNCHANGED <<requireCookie, clock, secret, cache, rpz, inbox, tasks,
                   replies, asked>>

FrontTick ==
    /\ Disturb
    /\ \E d \in Delays : clock' = clock + d
    /\ UNCHANGED <<requireCookie, secret, cache, rpz, inbox, tasks, replies,
                   client, asked>>

FrontInit ==
    /\ requireCookie \in Requiring
    /\ clock = Start
    /\ secret = 1
    /\ cache = {}
    /\ rpz = FirstPolicy
    /\ inbox = {} /\ tasks = {} /\ replies = {}
    /\ client = [c \in Clients |-> [addr |-> Home[c], jar |-> Option(ClientHalf(c), Home[c]),
                                    ask |-> NoAsk, id |-> 0, via |-> "udp"]]
    /\ asked = 0 /\ disturbed = 0

Worker(m) == Unparseable(m) \/ Notified(m) \/ Challenged(m) \/ Answered(m)

Serve == (\E m \in inbox : Worker(m)) \/ (\E t \in tasks : PendingDone(t))
Receive == \E r \in replies : Discard(r) \/ \E c \in Clients : GetReply(c, r)

FrontNext ==
    \/ Serve \/ Receive
    \/ \E m \in inbox : RateLimited(m)
    \/ \E r \in replies : LoseReply(r)
    \/ ReloadRpz \/ Restart \/ FrontTick
    \/ \E n \in cache : Expire(n)
    \/ \E c \in Clients : Resend(c) \/ (\E a \in DOMAIN Asks : Ask(c, a)) \/ (\E ip \in Addresses : Move(c, ip))

FrontSpec == FrontInit /\ [][FrontNext]_frontVars

(* Fairness.  The workers and tasks run, what is not lost arrives, and a   *)
(* client that gets no answer asks again: unless nothing is under way, a   *)
(* step that is neither a new query nor a disturbance happens again and    *)
(* again.  This is weak fairness of those steps, with when they are        *)
(* enabled spelled out.                                                    *)
Idle == inbox = {} /\ tasks = {} /\ replies = {} /\ \A c \in Clients : client[c].ask = NoAsk
FrontFairness == []<>Idle \/ []<><<asked' = asked /\ disturbed' = disturbed>>_<<inbox, tasks, replies>>

(***************************************************************************)
(* Properties.                                                             *)
(***************************************************************************)
Sources == {"none", "rpz", "cache", "upstream"} \cup {z.view : z \in AllZones}

(* Types: in particular every timestamp is a u32, and a reply that is cut  *)
(* to the limit has lost its content.                                      *)
FrontTypeOK ==
    /\ clock >= Start /\ disturbed \in 0..MaxDisturbed
    /\ \A c \in Clients : client[c].jar.cookie.ts \in 0..(TimeSpace - 1)
    /\ \A m \in inbox : m.src \in Addresses /\ m.ask \in DOMAIN Asks /\ m.via \in {"udp", "stream"}
    /\ \A r \in replies : r.resp.from \in Sources /\ (r.tc => r.resp.answers = {})

(* A cookie is good for the address it was given to, from this process,    *)
(* for at least twice its lifetime, also when the 32-bit clock wraps       *)
(* around in between: a client that echoes it is not challenged.           *)
CookiesHonoured ==
    \A c \in Clients :
       LET o == client[c].jar
       IN o.cookie.len = 24 /\ o.cookie.hash[1] = secret /\ clock - o.at <= 2 * Lifetime
          => Accepted(secret, o.cookie, o.to, Now)

(* With cookies required, a query by UDP is looked at, and upstreams are   *)
(* asked for it, only if it shows a cookie the server gave to that very    *)
(* address: everyone else gets a challenge, whatever they moved with,      *)
(* kept across a restart or found expired.                                 *)
GivenTo(option, ip) == option.cookie.len = 24 /\ option.to = ip
VerifiedOnly ==
    requireCookie =>
       /\ \A t \in tasks : t.m.via = "udp" => GivenTo(t.m.option, t.m.src)
       /\ \A r \in replies :
             r.via = "udp" /\ r.resp.from # "none" => GivenTo(r.shown, r.dst)

(* Only a client that may use recursion and asked for it gets anything     *)
(* from the cache or an upstream, and never for a name of no zone that had *)
(* a rule when the query came in, even if it was cached before the rule.   *)
Ruled(names, n) == Above(names, n) \ {<<>>} # {}
RecursionGuarded ==
    \A r \in replies :
       r.resp.from \in {"cache", "upstream"} =>
          /\ IsAllowed(Allowed, r.dst) /\ Asks[r.ask].rd
          /\ r.resp.resolved = Asks[r.ask].name => ~Ruled(r.resp.policy, Asks[r.ask].name)

(* lib.rs: "Response policy: applies to anything we would resolve for      *)
(* clients."                                                               *)
PolicyCoversAll ==
    \A r \in replies :
       r.resp.from \in {"cache", "upstream"} => ~Ruled(r.resp.policy, r.resp.resolved)

(* The signatures in an answer were made over the zone the answer is from. *)
SignaturesFit ==
    \A r \in replies : r.resp.signer # "none" /\ r.resp.resolved = NoName
                       => r.resp.from \in {r.resp.signer, "none"}

(* A client that sends its half of a cookie gets an answer: through        *)
(* challenges, truncation and a stream, changes of address, expired        *)
(* cookies, restarts and lost datagrams.  It asks one thing at a time, so  *)
(* this is to say that it never waits for good.                            *)
ClientAnswered ==
    \A c \in Clients : []<>(client[c].ask = NoAsk \/ ~Asks[client[c].ask].edns)

=============================================================================
