------------------------------- MODULE Trust -------------------------------
(***************************************************************************)
(* The chain of trust of dns-resolver's Validator: how verify_section gets *)
(* the keys of a signer (dnskeys, which asks delegated_ds, which asks      *)
(* dnskeys for the parent) and what it makes of a section.  One behaviour  *)
(* is one validation; the replies to its fetches may fail or be damaged,   *)
(* and zones may roll their keys while it runs.                            *)
(*                                                                         *)
(* dnskeys recurses to the parent, one label at a time, so the calls on    *)
(* the stack are those for the names from "start" up to "zone": the stack  *)
(* is that pair, and "held" is the DNSKEY reply each of them waits with.   *)
(***************************************************************************)
EXTENDS Naturals, Sequences

CONSTANTS
    Names,        \* the names, sequences of labels, closed under Parent
    Anchors,      \* Validator.anchors: a sequence of [zone, key]
    Worlds,       \* the DNS: [zones, signed, ds, denial]
    Hash,         \* the NSEC3 hash of a name
    Sections,     \* the sections validated: sequences of rrsets, see IsRrset
    MaxDepth,     \* MAX_DEPTH
    MaxFaults,    \* replies that are lost or damaged
    Rolling,      \* the zones that may be rolling their key
    MaxRolls      \* steps of a key rollover while the validation runs

VARIABLES
    world,        \* the DNS the replies come from
    roll,         \* per zone, how far it is in rolling its key-signing key
    section,      \* the rrsets under validation
    idx,          \* verify_section: the rrset and the signature it is at
    anySecure,    \* verify_section: any_secure
    pc,           \* "section", "call", "ds", "return" or "done"
    start,        \* the signer verify_section wants the keys of
    zone,         \* the zone of the innermost dnskeys call
    held,         \* per zone on the stack, the DNSKEY reply it holds
    memo,         \* Ctx.keys
    ret,          \* what the call that just ended returned
    verdict,      \* the Security of the section
    rolls,        \* steps of a rollover so far
    faults,       \* replies lost or damaged so far
    lost,         \* zones whose DNSKEY reply failed or held no key
    asked         \* the fetches so far: <<zone, type, whether it was asked before>>

vars == <<world, roll, section, idx, anySecure, pc, start, zone, held, memo,
          ret, verdict, rolls, faults, lost, asked>>

Root == <<>>
Parent(n) == Tail(n)
Suffixes(n) == {SubSeq(n, i, Len(n)) : i \in 1..(Len(n) + 1)}
Toward(n, m) == SubSeq(n, Len(n) - Len(m), Len(n))

ASSUME NamesAssumption ==
    /\ Names \subseteq Seq(STRING)
    /\ \A n \in Names : Suffixes(n) \subseteq Names

(***************************************************************************)
(* Keys and what they sign.  A zone has a zone-signing key and a           *)
(* key-signing key, the latter in generations.  A foreign key is one that  *)
(* the zone does not have.  verify_rrsig and verify_ds accept exactly what *)
(* the key signed or the digest was made of.                               *)
(***************************************************************************)
Zsk(z) == <<z, "zsk", 0>>
Ksk(z, g) == <<z, "ksk", g>>
Foreign(z) == <<z, "foreign", 0>>

(* What dnskeys returns: None (insecure), or Some(keys), empty if bogus. *)
Insecure == [insecure |-> TRUE, keys |-> {}]
Keys(k) == [insecure |-> FALSE, keys |-> k]
Bogus == Keys({})

(* The anchors are those of the root, which is signed; only zones are      *)
(* signed, and a DS stands for a signed zone.                              *)
ASSUME WorldsAssumption ==
    /\ Anchors \in Seq([zone : {Root}, key : {Ksk(Root, 0), Ksk(Root, 1)}])
    /\ \A w \in Worlds :
          Root \in w.signed /\ w.ds \subseteq w.signed /\ w.signed \subseteq w.zones
    /\ Hash \in [Names -> Nat]

(* An rrset is the zone it belongs to and its signatures.  A signature     *)
(* names a zone, any zone, as its signer; it is made by that zone's key    *)
(* over the data, or it is not good: another key's, or over other data.    *)
Signature(n, k) == [signer |-> n, by |-> k]
Good(n) == Signature(n, Zsk(n))
Bad(n) == Signature(n, Foreign(n))
Signatures == {Good(n) : n \in Names} \cup {Bad(n) : n \in Names}

IsRrset(r) == r.zone \in Names /\ r.sigs \in Seq(Signatures)

ASSUME SectionsAssumption ==
    \A s \in Sections : s \in Seq({s[i] : i \in DOMAIN s}) /\ \A i \in DOMAIN s : IsRrset(s[i])

VerifyRrsig(sig, key) == sig = key
VerifyDs(key, ds) == key = ds

(***************************************************************************)
(* What the DNS answers.  The key rollover of a zone has three steps: the  *)
(* new key is published, the parent's DS is changed, the old key goes.     *)
(***************************************************************************)
Ksks(z) == CASE roll[z] = 0 -> {Ksk(z, 0)}
             [] roll[z] \in {1, 2} -> {Ksk(z, 0), Ksk(z, 1)}
             [] OTHER -> {Ksk(z, 1)}
DsGeneration(z) == IF roll[z] < 2 THEN 0 ELSE 1

Cut(z) == CHOOSE s \in Suffixes(Parent(z)) \cap world.zones :
             \A t \in Suffixes(Parent(z)) \cap world.zones : Len(t) <= Len(s)
Signers(z) == IF z \in world.signed THEN {Zsk(z)} ELSE {}

(* The records denying a DS at z, in the three forms servers send: an NSEC *)
(* at the name, an NSEC3 at its hash, an opt-out NSEC3 of the parent.      *)
Denial(z) ==
    CASE world.denial = "nsec" ->
           [type |-> "NSEC", owner |-> z, types |-> {"NS", "RRSIG", "NSEC"}]
      [] world.denial = "nsec3" ->
           [type |-> "NSEC3", owner |-> Hash[z], next |-> Hash[Root],
            types |-> {"NS"}, optOut |-> FALSE]
      [] OTHER ->
           [type |-> "NSEC3", owner |-> Hash[Cut(z)], next |-> Hash[Cut(z)],
            types |-> {"NS", "SOA", "RRSIG", "DNSKEY"}, optOut |-> TRUE]

NoReply == [ok |-> FALSE, keys |-> {}, sigs |-> {}]
Reply(k, s) == [ok |-> TRUE, keys |-> k, sigs |-> s]

HonestKeys(z) == IF z \in world.signed THEN Reply(Ksks(z) \cup {Zsk(z)}, Ksks(z))
                                       ELSE Reply({}, {})

DsReply(d, s, a, t) == [ok |-> TRUE, ds |-> d, sigs |-> s, authority |-> a, authSigs |-> t]
NoDsReply == [ok |-> FALSE, ds |-> {}, sigs |-> {}, authority |-> {}, authSigs |-> {}]

HonestDs(z) == IF z \in world.ds
               THEN DsReply({Ksk(z, DsGeneration(z))}, Signers(Cut(z)), {}, {})
               ELSE DsReply({}, {}, {Denial(z)}, Signers(Cut(z)))

(* A reply may fail, be empty, lack its signatures, or carry a foreign key *)
(* with its signature: a timeout, a forwarder without DNSSEC, a reply from *)
(* a server with another copy of the zone.                                 *)
KeyReplies(z) ==
    {HonestKeys(z)} \cup
    IF faults = MaxFaults THEN {}
    ELSE {NoReply, Reply({}, {}), Reply(HonestKeys(z).keys, {}),
          Reply(HonestKeys(z).keys \cup {Foreign(z)}, {Foreign(z)})}

DsReplies(z) ==
    {HonestDs(z)} \cup
    IF faults = MaxFaults THEN {}
    ELSE {NoDsReply, DsReply({}, {}, {}, {}), DsReply(HonestDs(z).ds, {}, {}, {}),
          DsReply({}, {}, HonestDs(z).authority, {}),
          DsReply({Foreign(z)}, {Foreign(Cut(z))}, {}, {})}

(***************************************************************************)
(* authority_signed_by and authenticated_no_ds.                            *)
(***************************************************************************)
AuthoritySignedBy(reply, keys) ==
    /\ reply.authority # {}
    /\ \E s \in reply.authSigs, k \in keys : VerifyRrsig(s, k)

OptOutCovers(r, h) ==
    IF r.owner < r.next THEN r.owner < h /\ h <= r.next
                        ELSE h > r.owner \/ h <= r.next

(* Mutant of AuthenticatedNoDs: opt-out ranges are not considered. *)
AuthenticatedNoDsExact(z, authority) ==
    \E r \in authority :
       /\ r.owner = IF r.type = "NSEC" THEN z ELSE Hash[z]
       /\ "NS" \in r.types /\ "DS" \notin r.types

AuthenticatedNoDs(z, authority) ==
    \E r \in authority :
       IF r.type = "NSEC"
       THEN r.owner = z /\ "NS" \in r.types /\ "DS" \notin r.types
       ELSE \/ r.owner = Hash[z] /\ "NS" \in r.types /\ "DS" \notin r.types
            \/ r.optOut /\ OptOutCovers(r, Hash[z])

(***************************************************************************)
(* The end of dnskeys once the DS set is known: some key must be vouched   *)
(* for by a DS, and such a key must have signed the keys.                  *)
(***************************************************************************)
(* Mutant of VouchedKeys: any key of the reply may have signed the keys. *)
VouchedKeysAnySigner(ds, reply) ==
    LET trusted == {k \in reply.keys : \E d \in ds : VerifyDs(k, d)}
    IN IF trusted # {} /\ \E s \in reply.sigs, k \in reply.keys : VerifyRrsig(s, k)
       THEN Keys(reply.keys) ELSE Bogus

VouchedKeys(ds, reply) ==
    LET trusted == {k \in reply.keys : \E d \in ds : VerifyDs(k, d)}
    IN IF \E s \in reply.sigs, k \in trusted : VerifyRrsig(s, k)
       THEN Keys(reply.keys) ELSE Bogus

(* The anchor dnskeys uses for a zone: the first one listed for it. *)
AnchorsOf(z) == {i \in DOMAIN Anchors : Anchors[i].zone = z}
AnchorDs(z) ==
    Anchors[CHOOSE i \in AnchorsOf(z) : \A j \in AnchorsOf(z) : i <= j].key

(* Mutant of KeysByDs: a reply without a DS needs no proof. *)
KeysByDsUnproven(z, parentKeys, reply) ==
    CASE ~reply.ok -> Bogus
      [] reply.ok /\ reply.ds = {} -> Insecure
      [] OTHER ->
            IF \E s \in reply.sigs, k \in parentKeys : VerifyRrsig(s, k)
            THEN VouchedKeys(reply.ds, held[z]) ELSE Bogus

(* delegated_ds once the parent's keys are known to be good: the keys of z *)
(* that follow from the DS reply.                                          *)
KeysByDs(z, parentKeys, reply) ==
    CASE ~reply.ok -> Bogus
      [] reply.ok /\ reply.ds = {} ->
            IF /\ AuthoritySignedBy(reply, parentKeys)
               /\ AuthenticatedNoDs(z, reply.authority)
            THEN Insecure ELSE Bogus
      [] OTHER ->
            IF \E s \in reply.sigs, k \in parentKeys : VerifyRrsig(s, k)
            THEN VouchedKeys(reply.ds, held[z]) ELSE Bogus

(***************************************************************************)
(* The steps.                                                              *)
(***************************************************************************)
Rollable(z) == z \in world.ds \cup {Root}

Init ==
    /\ world \in Worlds
    /\ \E r \in Rolling, n \in 0..3 :
          roll = [z \in Names |-> IF z = r /\ Rollable(z) THEN n ELSE 0]
    /\ section \in Sections
    /\ idx = <<1, 1>>
    /\ anySecure = FALSE
    /\ pc = "section"
    /\ start = Root
    /\ zone = Root
    /\ held = [z \in Names |-> NoReply]
    /\ memo = <<>>
    /\ ret = Insecure
    /\ verdict = "none"
    /\ rolls = 0
    /\ faults = 0
    /\ lost = {}
    /\ asked = {}

Remember(z, v) == memo' = [n \in DOMAIN memo \cup {z} |-> IF n = z THEN v ELSE memo[n]]
Ask(z, type) ==
    asked' = asked \cup {<<z, type, \E a \in asked : a[1] = z /\ a[2] = type>>}
Fault(damaged) == faults' = IF damaged THEN faults + 1 ELSE faults

SectionDone(v) ==
    /\ verdict' = v
    /\ pc' = "done"
    /\ UNCHANGED <<world, roll, section, idx, anySecure, start, zone, held, memo,
                   ret, rolls, faults, lost, asked>>

(* verify_section: the next signature of the next rrset.  The section ends *)
(* when all are verified, or with the first one no signature is good for.  *)
NextSignature ==
    /\ pc = "section"
    /\ IF idx[1] > Len(section)
       THEN SectionDone(IF anySecure THEN "Secure" ELSE "Insecure")
       ELSE LET sigs == section[idx[1]].sigs
            IN CASE sigs = <<>> ->
                      /\ idx' = <<idx[1] + 1, 1>>
                      /\ UNCHANGED <<world, roll, section, anySecure, pc, start, zone,
                                     held, memo, ret, verdict, rolls, faults, lost, asked>>
                 [] sigs # <<>> /\ idx[2] > Len(sigs) -> SectionDone("Bogus")
                 [] OTHER ->
                      /\ start' = sigs[idx[2]].signer
                      /\ zone' = start'
                      /\ pc' = "call"
                      /\ UNCHANGED <<world, roll, section, idx, anySecure, held, memo,
                                     ret, verdict, rolls, faults, lost, asked>>

Depth == Len(start) - Len(zone)

(* dnskeys, its early returns: too deep, or the zone is in Ctx.keys. *)
Dnskeys ==
    /\ pc = "call"
    /\ Depth > MaxDepth \/ zone \in DOMAIN memo
    /\ ret' = IF Depth > MaxDepth THEN Insecure ELSE memo[zone]
    /\ pc' = "return"
    /\ UNCHANGED <<world, roll, section, idx, anySecure, start, zone, held, memo,
                   verdict, rolls, faults, lost, asked>>

(* Mutant of MayFetch: what an earlier call found is not looked for. *)
MayFetchAgain == Depth <= MaxDepth

MayFetch == Depth <= MaxDepth /\ zone \notin DOMAIN memo

(* dnskeys: the fetch of the DNSKEY rrset.  Without a key in the reply the *)
(* zone is insecure; an anchored zone is decided at once, and so is the    *)
(* root without an anchor (delegated_ds); another waits for its parent,    *)
(* with the placeholder in Ctx.keys.                                       *)
FetchDnskey ==
    /\ pc = "call"
    /\ MayFetch
    /\ Ask(zone, "DNSKEY")
    /\ \E reply \in KeyReplies(zone) :
          /\ Fault(reply # HonestKeys(zone))
          /\ held' = [held EXCEPT ![zone] = reply]
          /\ lost' = IF reply.keys = {} THEN lost \cup {zone} ELSE lost
          /\ LET decided == reply.keys = {} \/ AnchorsOf(zone) # {} \/ zone = Root
                 value == CASE reply.keys = {} -> Insecure
                            [] reply.keys # {} /\ AnchorsOf(zone) # {} ->
                                  VouchedKeys({AnchorDs(zone)}, reply)
                            [] OTHER -> Bogus
             IN /\ Remember(zone, IF decided THEN value ELSE Insecure)
                /\ ret' = IF decided THEN value ELSE ret
                /\ pc' = IF decided THEN "return" ELSE "call"
                /\ zone' = IF decided THEN zone ELSE Parent(zone)
    /\ UNCHANGED <<world, roll, section, idx, anySecure, start, verdict, rolls>>

(* The innermost call returns.  To delegated_ds, for the child: a parent   *)
(* without keys decides the child, otherwise the DS is fetched.  To        *)
(* verify_section: the signature is checked.                               *)
ReturnToChild ==
    /\ pc = "return"
    /\ zone # start
    /\ zone' = Toward(start, zone)
    /\ IF ret.keys = {}
       THEN Remember(zone', ret) /\ UNCHANGED pc
       ELSE pc' = "ds" /\ UNCHANGED memo
    /\ UNCHANGED <<world, roll, section, idx, anySecure, start, held, ret, verdict,
                   rolls, faults, lost, asked>>

(* Mutant of ReturnToSection: a signature of a broken chain is tried again. *)
ReturnToSectionStays ==
    /\ pc = "return"
    /\ zone = start
    /\ LET sig == section[idx[1]].sigs[idx[2]]
           good == \E k \in ret.keys : VerifyRrsig(sig.by, k)
       IN /\ idx' = IF ret.insecure \/ good THEN <<idx[1] + 1, 1>>
                    ELSE IF ret.keys = {} THEN idx ELSE <<idx[1], idx[2] + 1>>
          /\ anySecure' = (anySecure \/ good)
    /\ pc' = "section"
    /\ UNCHANGED <<world, roll, section, start, zone, held, memo, ret, verdict,
                   rolls, faults, lost, asked>>

ReturnToSection ==
    /\ pc = "return"
    /\ zone = start
    /\ LET sig == section[idx[1]].sigs[idx[2]]
           good == \E k \in ret.keys : VerifyRrsig(sig.by, k)
       IN /\ idx' = IF ret.insecure \/ good THEN <<idx[1] + 1, 1>> ELSE <<idx[1], idx[2] + 1>>
          /\ anySecure' = (anySecure \/ good)
    /\ pc' = "section"
    /\ UNCHANGED <<world, roll, section, start, zone, held, memo, ret, verdict,
                   rolls, faults, lost, asked>>

(* delegated_ds: the fetch of the DS rrset, and the end of dnskeys. *)
FetchDs ==
    /\ pc = "ds"
    /\ Ask(zone, "DS")
    /\ \E reply \in DsReplies(zone) :
          /\ Fault(reply # HonestDs(zone))
          /\ ret' = KeysByDs(zone, ret.keys, reply)
    /\ Remember(zone, ret')
    /\ pc' = "return"
    /\ UNCHANGED <<world, roll, section, idx, anySecure, start, zone, held, verdict, rolls, lost>>

(* A delegated zone takes the next step of a key rollover. *)
RollKey(z) ==
    /\ pc # "done"
    /\ rolls < MaxRolls
    /\ Rollable(z)
    /\ roll[z] < 3
    /\ roll' = [roll EXCEPT ![z] = @ + 1]
    /\ rolls' = rolls + 1
    /\ UNCHANGED <<world, section, idx, anySecure, pc, start, zone, held, memo, ret,
                   verdict, faults, lost, asked>>

Validation ==
    NextSignature \/ Dnskeys \/ FetchDnskey \/ ReturnToChild \/ ReturnToSection \/ FetchDs

Done == pc = "done" /\ UNCHANGED vars

Next == Validation \/ (\E z \in Rolling : RollKey(z)) \/ Done

Spec == Init /\ [][Next]_vars

(* A fetch ends, with a reply or its timeout, and tokio runs what is ready. *)
FairSpec == Spec /\ WF_vars(Validation)

(***************************************************************************)
(* Properties.                                                             *)
(***************************************************************************)
(* Types, and that the calls on the stack are those from start up to zone: *)
(* each but the innermost waits with keys, and has its place in Ctx.keys,  *)
(* so that no zone is on the stack twice.                                  *)
TypeOK ==
    /\ pc \in {"section", "call", "ds", "return", "done"}
    /\ verdict \in {"none", "Secure", "Insecure", "Bogus"}
    /\ verdict = "none" <=> pc # "done"
    /\ zone \in Suffixes(start)
    /\ DOMAIN memo \subseteq Names
    /\ faults \in 0..MaxFaults
    /\ pc \in {"call", "ds", "return"} =>
          \A z \in Suffixes(start) \ Suffixes(zone) :
             z \in DOMAIN memo /\ held[z].keys # {}

(* The zones with a chain of trust: from the anchored root on, each cut on *)
(* the way is a secure delegation to a signed zone.  dnskeys walks up one  *)
(* label at a time: it can follow the chain if every label is a cut.       *)
Chained(z) ==
    /\ z \in world.zones
    /\ \A s \in Suffixes(z) \cap world.zones :
          s \in world.signed /\ (s = Root \/ s \in world.ds)
Gapless(z) == Suffixes(z) \subseteq world.zones
Followed(z) == Chained(z) /\ Gapless(z) /\ Len(z) <= MaxDepth

SigsOf(r) == {r.sigs[j] : j \in DOMAIN r.sigs}

(* A section is Secure only if some rrset in it carries a signature made   *)
(* by the key of the zone the signature names, and that zone has a chain   *)
(* of trust, whatever replies were lost, stripped or damaged on the way.   *)
(* It need not be the zone of the rrset: see SecureIsOwn.                  *)
SecureIsGenuine ==
    verdict = "Secure" =>
       \E i \in DOMAIN section : \E g \in SigsOf(section[i]) :
          g = Good(g.signer) /\ Chained(g.signer)

(* An rrset that has signatures, none of them good, makes the section      *)
(* Bogus if the zones they name have chains of trust that dnskeys can      *)
(* follow, unless the DNSKEY fetch of such a zone or of one above it came  *)
(* back without keys: no damage to any other reply lets the rrset through. *)
AlteredCaught ==
    \A i \in DOMAIN section :
       /\ section[i].sigs # <<>>
       /\ \A g \in SigsOf(section[i]) : g = Bad(g.signer) /\ Followed(g.signer)
       /\ verdict \in {"Secure", "Insecure"}
       => \E g \in SigsOf(section[i]) : Suffixes(g.signer) \cap lost # {}

(* The data as the servers of its zone have it. *)
Genuine(r) ==
    /\ r.sigs = <<>> <=> r.zone \notin world.signed
    /\ SigsOf(r) \subseteq {Good(r.zone)}

(* With every fetch answered and genuine data, a validation is never       *)
(* Bogus, not for an unsigned delegation, a label that is no cut, a chain  *)
(* that is too deep or a key rolled while it runs.  If every label on the  *)
(* way to its zones is a cut, the section is Secure exactly if one of them *)
(* has a chain of trust.                                                   *)
HonestVerdict ==
    /\ verdict # "none"
    /\ faults = 0
    /\ \A i \in DOMAIN section : Genuine(section[i])
    => /\ verdict # "Bogus"
       /\ (\A i \in DOMAIN section : Gapless(section[i].zone)) =>
             (verdict = "Secure" <=> \E i \in DOMAIN section : Followed(section[i].zone))

(* One validation fetches the DNSKEY and the DS of a zone at most once,    *)
(* however many rrsets and signatures lead to it.                          *)
FetchedOnce == \A a \in asked : ~a[3]

(* README: "insecure delegations are only accepted when the absence of a   *)
(* DS is itself proven by the parent's NSEC/NSEC3".                        *)
InsecureIsProven ==
    verdict = "Insecure" /\ (\A i \in DOMAIN section : Genuine(section[i])) =>
       \A i \in DOMAIN section :
          ~Chained(section[i].zone) \/ Len(section[i].zone) > MaxDepth

(* validator.rs: "a forged record yields `Bogus`".  Here data that a zone  *)
(* with a chain of trust did not sign, with every fetch answered.          *)
ForgedIsBogus ==
    \A i \in DOMAIN section :
       /\ verdict # "none" /\ faults = 0
       /\ Followed(section[i].zone) /\ Good(section[i].zone) \notin SigsOf(section[i])
       => verdict = "Bogus"

(* What SecureIsGenuine says, of the zone the rrset belongs to. *)
SecureIsOwn ==
    verdict = "Secure" =>
       \E i \in DOMAIN section :
          Good(section[i].zone) \in SigsOf(section[i]) /\ Chained(section[i].zone)

(* Every validation ends with a verdict. *)
Terminates == <>(pc = "done")

=============================================================================
