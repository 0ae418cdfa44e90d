----------------------------- MODULE SignedZone -----------------------------
(***************************************************************************)
(* dns-dnssec's SignedZone (signatures, NSEC and NSEC3 chains, denial      *)
(* records), the authoritative responses dns-resolver builds with it, and  *)
(* what dns-resolver's Validator makes of such a response.  The signatures *)
(* are those of the zone that is served; ZoneStore is about when they are. *)
(*                                                                         *)
(* A signature is the records it was made over, and verifies exactly over  *)
(* them.  The keys of the zone are taken to be trusted.  A configuration   *)
(* is NSEC, or NSEC3 with an iteration count and the hash that results.    *)
(***************************************************************************)
EXTENDS ZoneData

CONSTANTS
    LabelRank,       \* the order of labels
    Configs,         \* the denial configurations: Nsec or [iterations, hash]
    MaxIterations    \* MAX_NSEC3_ITERATIONS

Nsec == [iterations |-> 0, hash |-> <<>>]
IsNsec3(c) == c # Nsec

Dnskey == [type |-> "DNSKEY", target |-> <<>>, value |-> 0]
Nsec3Param == [type |-> "NSEC3PARAM", target |-> <<>>, value |-> 0]

(* canonical_key order (RFC 4034 6.1): labels are compared from the right. *)
CanonLess(m, n) ==
    LET a == Reverse(m)
        b == Reverse(n)
    IN \/ IsStrictPrefix(a, b)
       \/ \E i \in DOMAIN a \cap DOMAIN b :
             /\ SubSeq(a, 1, i - 1) = SubSeq(b, 1, i - 1)
             /\ LabelRank[a[i]] < LabelRank[b[i]]

(***************************************************************************)
(* SignedZone::sign.                                                       *)
(***************************************************************************)

(* The rrset signed for a name and type: of Zone::all_records, whose SOA   *)
(* is the zone's field, and what signing adds at the apex.                 *)
SignedRrset(c, n, t) ==
    CASE t = "SOA" -> IF n = Origin THEN <<zone.soa>> ELSE <<>>
      [] t = "DNSKEY" -> IF n = Origin THEN <<Dnskey>> ELSE <<>>
      [] t = "NSEC3PARAM" -> IF n = Origin /\ IsNsec3(c) THEN <<Nsec3Param>> ELSE <<>>
      [] OTHER -> OfType(Node(zone.records, n), t)

Owners == {Origin} \cup
    {n \in DOMAIN zone.records : NotOfType(zone.records[n], "SOA") # <<>>}

(* The type bitmap of a name's NSEC or NSEC3 record. *)
TypesAt(c, n) ==
    (TypesOf(Node(zone.records, n)) \ {"SOA"})
    \cup {"RRSIG"}
    \cup (IF n = Origin THEN {"SOA", "DNSKEY"} ELSE {})
    \cup (IF n = Origin /\ IsNsec3(c) THEN {"NSEC3PARAM"} ELSE {})
    \cup (IF IsNsec3(c) THEN {} ELSE {"NSEC"})

NextOf(s, i) == s[(i % Len(s)) + 1]

NsecChain ==
    LET owners == SetToSortSeq(Owners, CanonLess)
    IN [i \in DOMAIN owners |->
           [owner |-> owners[i], next |-> NextOf(owners, i), types |-> TypesAt(Nsec, owners[i])]]

(* nsec3::build_chain *)
Nsec3Chain(c) ==
    LET hashes == SetToSortSeq({c.hash[n] : n \in Owners}, LAMBDA a, b : a < b)
    IN [i \in DOMAIN hashes |-> [hash |-> hashes[i], next |-> NextOf(hashes, i)]]

Chain(c) == IF IsNsec3(c) THEN Nsec3Chain(c) ELSE NsecChain

(***************************************************************************)
(* SignedZone::denial_records.                                             *)
(***************************************************************************)
Covers(r, h) ==
    IF r.hash < r.next THEN r.hash < h /\ h <= r.next
    ELSE h > r.hash \/ h <= r.next

(* Mutant of NsecDenial: the NSEC after the name instead of before it. *)
NsecDenialAfter(chain, n, nxdomain) ==
    LET above == {i \in DOMAIN chain : CanonLess(n, chain[i].owner)}
    IN {chain[IF above = {} THEN 1 ELSE Min(above)]}

NsecDenial(chain, n, nxdomain) ==
    LET exact == {i \in DOMAIN chain : chain[i].owner = n}
        upto == exact \cup {i \in DOMAIN chain : CanonLess(chain[i].owner, n)}
    IN IF ~nxdomain /\ exact # {} THEN {chain[i] : i \in exact}
       ELSE {chain[IF upto = {} THEN Len(chain) ELSE Max(upto)]}

(* The longest ancestor that owns records, the apex at the least. *)
ClosestEncloser(n) ==
    LET skips == {k \in 0..(Len(n) - Len(Origin) - 1) : Skip(n, k) \in Owners}
    IN IF skips = {} THEN Origin ELSE Skip(n, Min(skips))

NextCloser(n, ce) ==
    IF Len(n) <= Len(ce) + 1 THEN n ELSE Skip(n, Len(n) - Len(ce) - 1)

Nsec3Denial(c, chain, n, nxdomain) ==
    LET matching(m) == {r \in Range(chain) : r.hash = c.hash[m]}
        covering(m) ==
            LET is == {i \in DOMAIN chain : Covers(chain[i], c.hash[m])}
            IN IF is = {} THEN {} ELSE {chain[Min(is)]}
        ce == ClosestEncloser(n)
    IN IF ~nxdomain THEN matching(n)
       ELSE matching(ce) \cup covering(NextCloser(n, ce)) \cup covering(<<"*">> \o ce)

DenialRecords(c, chain, n, nxdomain) ==
    IF IsNsec3(c) THEN Nsec3Denial(c, chain, n, nxdomain) ELSE NsecDenial(chain, n, nxdomain)

(***************************************************************************)
(* resolve_local for a name of the zone and a client that set DO, and      *)
(* attach_dnssec.  Answers are given without their RRSIGs: an rrset has    *)
(* one exactly if SignedRrset has records for it.                          *)
(***************************************************************************)
Response(c, chain, n, t) ==
    LET found == Lookup(zone.records, n, t)
        synthesized == n = Origin /\ (t = "DNSKEY" \/ (t = "NSEC3PARAM" /\ IsNsec3(c)))
    IN IF synthesized
       THEN [rcode |-> "NOERROR", answers |-> Owned(n, SignedRrset(c, n, t)),
             soa |-> <<>>, denial |-> {}]
       ELSE [rcode |-> found.rcode,
             answers |-> found.answers,
             soa |-> IF found.negative THEN <<zone.soa>> ELSE <<>>,
             denial |-> IF found.negative
                        THEN DenialRecords(c, chain, n, found.rcode = "NXDOMAIN") ELSE {}]

(***************************************************************************)
(* Validator::validate.                                                    *)
(***************************************************************************)

(* Mutant of NsecProves: the bounds of the gap count as in the gap. *)
NsecProvesWide(n, t, recs) ==
    \E r \in recs :
        \/ r.owner = n /\ t \notin r.types
        \/ IF CanonLess(r.owner, r.next)
           THEN (r.owner = n \/ CanonLess(r.owner, n)) /\ (n = r.next \/ CanonLess(n, r.next))
           ELSE CanonLess(r.owner, n) \/ CanonLess(n, r.next)

NsecProves(n, t, recs) ==
    \E r \in recs :
        IF r.owner = n THEN t \notin r.types
        ELSE IF CanonLess(r.owner, r.next)
             THEN CanonLess(r.owner, n) /\ CanonLess(n, r.next)
             ELSE CanonLess(r.owner, n) \/ CanonLess(n, r.next)

Nsec3Proves(c, n, recs) ==
    LET matches(m) == \E r \in recs : r.hash = c.hash[m]
        covers(m) == \E r \in recs : Covers(r, c.hash[m])
    IN \/ matches(n)
       \/ \E k \in 1..(Len(n) - 1) : matches(Skip(n, k)) /\ covers(Skip(n, k - 1))

DenialProven(c, n, t, recs) ==
    /\ recs # {}
    /\ IF IsNsec3(c) THEN Nsec3Proves(c, n, recs) ELSE NsecProves(n, t, recs)

(* verify_section: each signed rrset of a section against its signature. *)
VerifySection(c, section) ==
    LET rrset(n, t) == SelectSeq(section, LAMBDA r : r.owner = n /\ r.rr.type = t)
        signed == {r \in Range(section) : SignedRrset(c, r.owner, r.rr.type) # <<>>}
    IN [any_secure |-> signed # {},
        bogus |-> \E r \in signed :
            ToBag(rrset(r.owner, r.rr.type))
                # ToBag(Owned(r.owner, SignedRrset(c, r.owner, r.rr.type)))]

Validate(c, resp, n, t) ==
    LET answer == VerifySection(c, resp.answers)
        auth == VerifySection(c, Owned(Origin, resp.soa))
        plain == IF answer.any_secure THEN "Secure" ELSE "Insecure"
        is_denial == resp.answers = <<>> \/ resp.rcode = "NXDOMAIN"
        proven == DenialProven(c, n, t, resp.denial)
    IN CASE answer.bogus -> "Bogus"
         [] ~answer.bogus /\ IsNsec3(c) /\ c.iterations > MaxIterations /\ resp.denial # {} -> plain
         [] OTHER ->
              IF ~is_denial \/ resp.soa = <<>> THEN plain
              ELSE IF auth.bogus THEN "Bogus"
              ELSE IF auth.any_secure /\ proven THEN "Secure"
              ELSE IF auth.any_secure /\ resp.denial # {} THEN "Bogus"
              ELSE plain

(***************************************************************************)
(* Properties.  The chain is built once for a configuration.               *)
(***************************************************************************)

(* An answer takes the first CNAME of a name, its signature is over all of *)
(* them, and an update may add a second one.                               *)
OneCnameEach == \A n \in DOMAIN zone.records : Len(OfType(zone.records[n], "CNAME")) <= 1

(* A freshly signed zone never produces a response that the validator of   *)
(* the same program takes for forged: signatures, bitmaps, chains and      *)
(* denial records fit together after every edit, update and reload, unless *)
(* a name has several CNAMEs.  (A CNAME loop repeats its records, but is a *)
(* SERVFAIL.)  And the validator authenticates it, "RRSIGs beside every    *)
(* answer rrset, and NSEC + RRSIG proving denial" (attach_dnssec), with    *)
(* three exceptions: what a wildcard made up has no signature under that   *)
(* name; NSEC3 has no record for a name without records of its own; and    *)
(* many iterations are refused.                                            *)
NeverBogus == OneCnameEach =>
    \A c \in Configs : \E chain \in {Chain(c)} : \A n \in QNames, t \in QTypes :
        LET resp == Response(c, chain, n, t)
            expanded == resp.answers # <<>> /\ \A r \in Range(resp.answers) : r.owner \notin Owners
            unowned == IsNsec3(c) /\ resp.answers = <<>> /\ resp.rcode = "NOERROR" /\ n \notin Owners
            refused == resp.answers = <<>> /\ c.iterations > MaxIterations
        IN resp.rcode # "SERVFAIL" =>
              Validate(c, resp, n, t) \in
                  IF expanded \/ unowned \/ refused THEN {"Secure", "Insecure"} ELSE {"Secure"}

(* The NSEC records sent to deny one question prove nothing about records  *)
(* that are there.                                                         *)
NsecSound ==
    \E chain \in {NsecChain} : \A n \in QNames, t \in QTypes :
        LET resp == Response(Nsec, chain, n, t)
        IN \A m \in DOMAIN zone.records : \A u \in TypesAt(Nsec, m) :
              ~NsecProves(m, u, resp.denial)
=============================================================================
