------------------------------ MODULE ZoneData ------------------------------
(***************************************************************************)
(* dns-zone: the records of an authoritative zone, the edits the           *)
(* management API and RFC 2136 updates make to them, lookups, and the      *)
(* zone file a zone is written to and read from.                           *)
(*                                                                         *)
(* A name is the sequence of its labels.  A record is its type and rdata   *)
(* (a target name or a number); the owner is where it is kept, and TTLs    *)
(* are left out.  Handlers work on a clone that they store when all went   *)
(* well, so operators take a zone and return one.                          *)
(***************************************************************************)
EXTENDS Naturals, Sequences, FiniteSets, SequencesExt, FiniteSetsExt, Functions

CONSTANTS
    Origin,        \* the zone's name
    Patches,       \* the rrset lists of PATCH requests
    Updates,       \* the UPDATE requests: prerequisites and updates
    QNames,        \* the names asked for
    QTypes,        \* the types asked for
    SerialSpace,   \* where the SOA serial wraps
    MaxChase,      \* CNAMEs followed in a lookup
    MaxRecords     \* bound on the size of the zone

VARIABLE zone      \* [soa, records, count]: Zone

(***************************************************************************)
(* Names.                                                                  *)
(***************************************************************************)
EndsWith(n, z) == IsSuffix(z, n)
Skip(n, k) == SubSeq(n, k + 1, Len(n))
WildcardAt(n, k) == <<"*">> \o Skip(n, k)

(***************************************************************************)
(* Records, in the order they were added (Vec<Record>).                    *)
(***************************************************************************)
A(v) == [type |-> "A", target |-> <<>>, value |-> v]
NS(v) == [type |-> "NS", target |-> <<>>, value |-> v]
Soa(s) == [type |-> "SOA", target |-> <<>>, value |-> s]
Cname(t) == [type |-> "CNAME", target |-> t, value |-> 0]
OfType(rrs, t) == SelectSeq(rrs, LAMBDA r : r.type = t)
NotOfType(rrs, t) == SelectSeq(rrs, LAMBDA r : r.type # t)
HasType(rrs, t) == \E r \in Range(rrs) : r.type = t
TypesOf(rrs) == {r.type : r \in Range(rrs)}

(***************************************************************************)
(* Zone.records: HashMap<DnsName, Vec<Record>>.                            *)
(***************************************************************************)
Node(recs, n) == IF n \in DOMAIN recs THEN recs[n] ELSE <<>>
Put(recs, n, rrs) == [m \in DOMAIN recs \cup {n} |-> IF m = n THEN rrs ELSE recs[m]]
Prune(recs) == Restrict(recs, {n \in DOMAIN recs : recs[n] # <<>>})
Recount(recs) == MapThenSumSet(LAMBDA n : Len(recs[n]), DOMAIN recs)

NoZone == [soa |-> Soa(0), records |-> <<>>, count |-> 0]

(* Zone::from_records over owner/record pairs; NoZone stands for Err. *)
FromRecords(all) ==
    LET soas == {i \in DOMAIN all : all[i].rr.type = "SOA"}
        at(n) == SelectSeq(all, LAMBDA r : r.owner = n)
        rrs(n) == [i \in DOMAIN at(n) |-> at(n)[i].rr]
        ok == /\ \A r \in Range(all) : EndsWith(r.owner, Origin)
              /\ Cardinality(soas) = 1
              /\ \A i \in soas : all[i].owner = Origin
    IN IF ~ok THEN NoZone
       ELSE [soa |-> all[CHOOSE i \in soas : TRUE].rr,
             records |-> [n \in {r.owner : r \in Range(all)} |-> rrs(n)],
             count |-> Len(all)]

(***************************************************************************)
(* Zone::rrsets and to_zonefile: the lines of the file, rrset by rrset     *)
(* with the SOA first, and parse_zone_file, which collects them again.     *)
(***************************************************************************)
ZoneFileRrsets(z) ==
    LET sets == {<<n, t>> : n \in DOMAIN z.records, t \in UNION {TypesOf(z.records[m]) : m \in DOMAIN z.records}}
        present == {s \in sets : HasType(z.records[s[1]], s[2])}
        soas == {s \in present : s[2] = "SOA"}
    IN SetToSeq(soas) \o SetToSeq(present \ soas)

Owned(n, rrs) == [i \in DOMAIN rrs |-> [owner |-> n, rr |-> rrs[i]]]

ToZonefile(z) ==
    FlattenSeq([i \in DOMAIN ZoneFileRrsets(z) |->
        LET s == ZoneFileRrsets(z)[i] IN Owned(s[1], OfType(z.records[s[1]], s[2]))])

ParseZoneFile(lines) == FromRecords(lines)

(***************************************************************************)
(* Zone::replace_rrset and delete_rrset.  An edit is [change, name, type,  *)
(* rrs].  NoZone stands for Err.                                           *)
(***************************************************************************)
MayReplace(z, e) ==
    LET node == Node(z.records, e.name) IN
    /\ EndsWith(e.name, Origin)
    /\ e.rrs # <<>>
    /\ e.type = "SOA" => e.name = Origin /\ Len(e.rrs) = 1
    /\ e.type = "CNAME" => NotOfType(node, "CNAME") = <<>> /\ Len(e.rrs) = 1
    /\ e.type # "CNAME" => ~HasType(node, "CNAME")

ReplaceRrset(z, e) ==
    LET node == NotOfType(Node(z.records, e.name), e.type) \o e.rrs
        recs == Put(z.records, e.name, node)
    IN [soa |-> IF e.type = "SOA" THEN e.rrs[1] ELSE z.soa,
        records |-> recs, count |-> Recount(recs)]

(* Mutant: the node stays when its last record goes. *)
DeleteRrsetKeepsNode(z, e) ==
    LET recs == IF e.name \notin DOMAIN z.records THEN z.records
                ELSE Put(z.records, e.name, NotOfType(z.records[e.name], e.type))
    IN [z EXCEPT !.records = recs, !.count = Recount(recs)]

DeleteRrset(z, e) ==
    LET recs == IF e.name \notin DOMAIN z.records THEN z.records
                ELSE LET rrs == NotOfType(z.records[e.name], e.type) IN
                     IF rrs = <<>> THEN Restrict(z.records, DOMAIN z.records \ {e.name})
                     ELSE Put(z.records, e.name, rrs)
    IN [z EXCEPT !.records = recs, !.count = Recount(recs)]

(* apply_rrset *)
ApplyRrset(z, e) ==
    CASE z = NoZone -> NoZone
      [] e.change = "REPLACE" -> IF MayReplace(z, e) THEN ReplaceRrset(z, e) ELSE NoZone
      [] e.change = "DELETE" -> IF e.type = "SOA" THEN NoZone ELSE DeleteRrset(z, e)
      [] OTHER -> NoZone

(* Zone::bump_serial: the SOA field and every SOA among the apex's records. *)
BumpSerial(z) ==
    LET fresh == Soa((z.soa.value + 1) % SerialSpace)
        node == Node(z.records, Origin)
    IN [z EXCEPT
        !.soa = fresh,
        !.records = IF Origin \notin DOMAIN @ THEN @
                    ELSE Put(@, Origin, [i \in DOMAIN node |->
                             IF node[i].type = "SOA" THEN fresh ELSE node[i]])]

(***************************************************************************)
(* Zone::apply_update (RFC 2136).  A prerequisite or an update is          *)
(* [class, name, rr]; the type "ANY" stands for all types.                 *)
(***************************************************************************)
PrereqRcode(z, p) ==
    LET rrs == Node(z.records, p.name)
        name == p.name \in DOMAIN z.records
        type == HasType(rrs, p.rr.type)
    IN CASE ~EndsWith(p.name, Origin) -> "NOTAUTH"
         [] p.class = "ANY" /\ p.rr.type # "ANY" -> IF type THEN "NOERROR" ELSE "NXRRSET"
         [] p.class = "ANY" -> IF name THEN "NOERROR" ELSE "NXDOMAIN"
         [] p.class = "NONE" /\ p.rr.type # "ANY" -> IF type THEN "YXRRSET" ELSE "NOERROR"
         [] p.class = "NONE" -> IF name THEN "YXDOMAIN" ELSE "NOERROR"
         [] p.class = "IN" -> IF Contains(rrs, p.rr) THEN "NOERROR" ELSE "NXRRSET"
         [] OTHER -> "FORMERR"

UpdateRcode(z, u) ==
    LET failing == {i \in DOMAIN u.prereqs : PrereqRcode(z, u.prereqs[i]) # "NOERROR"}
    IN CASE failing # {} -> PrereqRcode(z, u.prereqs[Min(failing)])
         [] \E x \in Range(u.updates) : ~EndsWith(x.name, Origin) -> "NOTAUTH"
         [] \E x \in Range(u.updates) : x.class \notin {"IN", "ANY", "NONE"} -> "FORMERR"
         [] OTHER -> "NOERROR"

AddRecord(recs, u) ==
    LET node == Node(recs, u.name)
    IN IF Contains(node, u.rr) THEN recs ELSE Put(recs, u.name, Append(node, u.rr))

DeleteSets(recs, u) ==
    CASE u.name \notin DOMAIN recs -> recs
      [] u.rr.type = "ANY" /\ u.name = Origin ->
            Put(recs, Origin, SelectSeq(recs[Origin], LAMBDA r : r.type \in {"SOA", "NS"}))
      [] u.rr.type = "ANY" -> Restrict(recs, DOMAIN recs \ {u.name})
      [] u.name = Origin /\ u.rr.type = "SOA" -> recs
      [] OTHER -> Put(recs, u.name, NotOfType(recs[u.name], u.rr.type))

DeleteRecord(recs, u) ==
    IF u.name \notin DOMAIN recs THEN recs
    ELSE Put(recs, u.name, SelectSeq(recs[u.name], LAMBDA r : r # u.rr))

ApplyOne(recs, u) ==
    Prune(CASE u.class = "IN" -> AddRecord(recs, u)
            [] u.class = "ANY" -> DeleteSets(recs, u)
            [] u.class = "NONE" -> DeleteRecord(recs, u))

ApplyUpdate(z, u) ==
    LET recs == FoldLeft(ApplyOne, z.records, u.updates)
    IN [z EXCEPT !.records = recs, !.count = Recount(recs)]

(***************************************************************************)
(* The handlers.                                                           *)
(***************************************************************************)
Store(z) ==
    /\ z.count <= MaxRecords
    /\ zone' = z

(* create_zone, and the zone file the server starts from. *)
Init == zone = FromRecords(Owned(Origin, <<Soa(0)>>))

(* patch_zone: all rrsets or none, then the serial. *)
PatchZone(p) ==
    LET edited == FoldLeft(ApplyRrset, zone, p)
    IN IF edited = NoZone THEN UNCHANGED zone ELSE Store(BumpSerial(edited))

(* handle_update, past its access checks. *)
HandleUpdate(u) ==
    IF UpdateRcode(zone, u) # "NOERROR" THEN UNCHANGED zone
    ELSE Store(BumpSerial(ApplyUpdate(zone, u)))

(* SIGHUP: what the file says, unless it does not load. *)
Reload ==
    LET loaded == ParseZoneFile(ToZonefile(zone))
    IN zone' = IF loaded = NoZone THEN zone ELSE loaded

Next ==
    \/ \E p \in Patches : PatchZone(p)
    \/ \E u \in Updates : HandleUpdate(u)
    \/ Reload

Spec == Init /\ [][Next]_zone

(***************************************************************************)
(* Zone::lookup.  A lookup is the name it is at, what it has collected,    *)
(* and its result once rcode is set.                                       *)
(***************************************************************************)
NoName == <<"none">>

(* The node that answers for a name: its own, or the nearest wildcard's. *)
FindNode(recs, n) ==
    LET skips == {k \in 1..(Len(n) - Len(Origin)) : WildcardAt(n, k) \in DOMAIN recs}
    IN CASE n \in DOMAIN recs -> n
         [] n \notin DOMAIN recs /\ skips # {} -> WildcardAt(n, Min(skips))
         [] OTHER -> NoName

HasNamesBelow(recs, n) == \E k \in DOMAIN recs : k # n /\ EndsWith(k, n)

LookupStep(recs, t, s) ==
    LET at == FindNode(recs, s.name)
        node == Node(recs, at)
        matched == IF t = "ANY" THEN node ELSE OfType(node, t)
        cnames == OfType(node, "CNAME")
        empty == HasNamesBelow(recs, s.name) \/ s.answers # <<>>
    IN CASE at = NoName ->
              [s EXCEPT !.rcode = IF empty THEN "NOERROR" ELSE "NXDOMAIN", !.negative = TRUE]
         [] at # NoName /\ matched # <<>> ->
              [s EXCEPT !.rcode = "NOERROR", !.answers = @ \o Owned(s.name, matched)]
         [] at # NoName /\ matched = <<>> /\ cnames # <<>> ->
              [s EXCEPT !.answers = @ \o Owned(s.name, <<cnames[1]>>),
                        !.rcode = IF EndsWith(cnames[1].target, Origin) THEN @ ELSE "NOERROR",
                        !.offsite = ~EndsWith(cnames[1].target, Origin),
                        !.name = cnames[1].target]
         [] OTHER -> [s EXCEPT !.rcode = "NOERROR", !.negative = TRUE]

(* Mutant of Lookup: one CNAME is followed. *)
LookupOnce(recs, n, t) ==
    LET start == [name |-> n, answers |-> <<>>, rcode |-> "chasing",
                  negative |-> FALSE, offsite |-> FALSE]
        first == LookupStep(recs, t, start)
    IN IF first.rcode = "chasing" THEN [first EXCEPT !.rcode = "SERVFAIL"] ELSE first

Lookup(recs, n, t) ==
    LET start == [name |-> n, answers |-> <<>>, rcode |-> "chasing",
                  negative |-> FALSE, offsite |-> FALSE]
        after[k \in 0..MaxChase] ==
            IF k = 0 THEN start
            ELSE LET s == after[k - 1]
                 IN IF s.rcode = "chasing" THEN LookupStep(recs, t, s) ELSE s
        last == after[MaxChase]
    IN IF last.rcode = "chasing" THEN [last EXCEPT !.rcode = "SERVFAIL"] ELSE last

(***************************************************************************)
(* Properties.                                                             *)
(***************************************************************************)

(* The zone has an SOA, its records belong to it, and record_count counts  *)
(* them.                                                                   *)
TypeOK ==
    /\ zone.soa.type = "SOA" /\ zone.soa.value \in 0..(SerialSpace - 1)
    /\ \A n \in DOMAIN zone.records :
          EndsWith(n, Origin) /\ zone.records[n] \in Seq(Range(zone.records[n]))
    /\ zone.count = Recount(zone.records)

(* to_zonefile round-trips through parse_zone_file: what is written loads, *)
(* and holds the same records under the same SOA and at the same names.    *)
(* So no name is left behind without records either, whatever sequence of  *)
(* edits and updates empties it, which find_node would take for an answer  *)
(* (NODATA for NXDOMAIN, wildcards hidden).                                *)
RoundTrips ==
    LET loaded == ParseZoneFile(ToZonefile(zone)) IN
    /\ loaded # NoZone
    /\ loaded.soa = zone.soa
    /\ loaded.count = zone.count
    /\ DOMAIN loaded.records = DOMAIN zone.records
    /\ \A n \in DOMAIN zone.records : ToBag(loaded.records[n]) = ToBag(zone.records[n])

(***************************************************************************)
(* What lookups mean, without a bound or an order.  Hop is the CNAME graph *)
(* for a type within QNames, and Reach(hop)[n] the least set with n that   *)
(* is closed under it.                                                     *)
(***************************************************************************)
Hop(t) ==
    [n \in QNames |->
        LET node == Node(zone.records, FindNode(zone.records, n))
            cnames == OfType(node, "CNAME")
        IN IF t # "ANY" /\ OfType(node, t) = <<>> /\ cnames # <<>> /\ cnames[1].target \in QNames
           THEN cnames[1].target ELSE NoName]
Reach(hop) ==
    LET closed == {S \in SUBSET QNames : \A n \in S : hop[n] \in S \cup {NoName}}
    IN [n \in QNames |-> {m \in QNames : \A S \in closed : n \in S => m \in S}]

(* A lookup fails exactly on a CNAME loop ("CNAME loop inside the zone     *)
(* data"), denies a name exactly when neither it, a wildcard, nor anything *)
(* below it exists, and otherwise ends with the records of the last name   *)
(* on the chain, all of them and nothing else.                             *)
LookupRight ==
    \A t \in QTypes : \E hop \in {Hop(t)} : \E reach \in {Reach(hop)} : \A n \in QNames :
        LET r == Lookup(zone.records, n, t)
            loop == \A m \in reach[n] : hop[m] # NoName
            end == CHOOSE m \in reach[n] : hop[m] = NoName
            final == Node(zone.records, FindNode(zone.records, end))
            data == IF t = "ANY" THEN final ELSE OfType(final, t)
            tail == SubSeq(r.answers, Len(r.answers) - Len(data) + 1, Len(r.answers))
        IN /\ (r.rcode = "SERVFAIL") = loop
           /\ (r.rcode = "NXDOMAIN") =
                 (FindNode(zone.records, n) = NoName /\ ~HasNamesBelow(zone.records, n))
           /\ ~loop /\ ~r.offsite => r.negative = (data = <<>>)
           /\ ~loop /\ ~r.offsite /\ ~r.negative => tail = Owned(end, data)
=============================================================================
