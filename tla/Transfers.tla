----------------------------- MODULE Transfers -----------------------------
(***************************************************************************)
(* Zone transfers and dynamic updates between a primary and its peers:     *)
(* server.rs's transfer_out and the gate of handle_update, dns-tsig, the   *)
(* messages dns-xfr makes of a zone and its journal, and axfr_pull, which  *)
(* reads them.  One zone is served; ZoneStore has the tasks that write it  *)
(* and the steps an update takes.                                          *)
(*                                                                         *)
(* A record is <<"SOA", serial>> or <<type, data>>.  A MAC is the record   *)
(* of what went into the HMAC, so two are equal when key, message, time    *)
(* and prior MAC are.  Peers have clocks of their own.  Connections may    *)
(* break, time passes between any two steps, and datagrams with updates    *)
(* may be repeated or lost.  Incremental pulls are made by other servers   *)
(* (rdns itself only pulls whole zones); they read what they get as        *)
(* RFC 1995 says, but for the number of SOA records that mark a section.   *)
(***************************************************************************)
EXTENDS Acl, Sequences

CONSTANTS
    Peers,          \* records [addr, key, secret, skew], key "none" if it does not sign
    KeyRing,        \* [[tsig_key]]: a function from names to secrets
    TransferAcl, UpdateAcl,   \* transfer.allow, update.allow
    Requirements,   \* the values of require_tsig, for transfers and updates:
                    \* the name of a key, or "none"
    Origins,        \* the names transfers are asked for; "zone" is served
    FirstRecords,   \* what the zone has beside its SOA
    HashOrder,      \* the order in which Zone.records, a HashMap, gives out records
    Updates,        \* the updates in the order they are sent: sets of records [add, delete]
    Updaters,       \* the peers that send them
    Incremental,    \* the peers that ask for an IXFR
    SoasPerMarker,  \* SOA records an IXFR client takes for one marker
    Chunk,          \* AXFR_CHUNK
    Depth,          \* JOURNAL_DEPTH
    Fudge,          \* MAX_CLOCK_SKEW
    XfrTimeout,     \* XFR_TIMEOUT
    MaxTime, MaxTroubles

ASSUME PeersAssumption ==
    /\ Fudge \in Nat /\ XfrTimeout \in Nat
    /\ \A p \in Peers \cup Updaters \cup Incremental : p.skew \in Int

(* AXFR_CHUNK is not zero, the SOA record is the zone's own, and every     *)
(* other record has its place among those of the zone.                     *)
ASSUME RecordsAssumption ==
    /\ Chunk \in Nat \ {0} /\ Depth \in Nat
    /\ Len(Updates) \in Nat /\ DOMAIN Updates = 1..Len(Updates)
    /\ Len(HashOrder) \in Nat
    /\ \A r \in FirstRecords \cup UNION {Updates[i].add : i \in DOMAIN Updates} :
          r[1] # "SOA" /\ \E i \in 1..Len(HashOrder) : HashOrder[i] = r

VARIABLES
    requireTsig,
    now,        \* seconds by the primary's clock
    zone,       \* the zone served: [serial, records]
    journal,    \* Journal.zones
    versions,   \* the zones served so far, which peers may have copies of
    pull,       \* the transfer a peer makes
    datagrams,  \* the updates on their way
    applied,    \* history: whose update changed the zone last, and its age
    updates, troubles

transferVars == <<requireTsig, now, zone, journal, versions, pull, datagrams, applied,
                  updates, troubles>>

PeerClock(p) == now + p.skew

(***************************************************************************)
(* dns-tsig.  A signature that is absent is NoTsig.                        *)
(***************************************************************************)
NoMac == <<>>
NoTsig == [key |-> "none", time |-> 0, mac |-> NoMac]

ComputeMac(secret, body, time, prior) == <<secret, body, time, prior>>

SignWith(key, secret, body, time, prior) ==
    [key |-> key, time |-> time, mac |-> ComputeMac(secret, body, time, prior)]

(* Mutant of TsigVerify: the time is not looked at. *)
TsigVerifyAnyTime(body, tsig, keys, time, prior) ==
    CASE tsig = NoTsig -> "Missing"
      [] tsig # NoTsig /\ tsig.key \notin DOMAIN keys -> "BadKey"
      [] OTHER -> IF tsig.mac # ComputeMac(keys[tsig.key], body, tsig.time, prior)
                  THEN "BadSig" ELSE "Ok"

TsigVerify(body, tsig, keys, time, prior) ==
    CASE tsig = NoTsig -> "Missing"
      [] tsig # NoTsig /\ tsig.key \notin DOMAIN keys -> "BadKey"
      [] OTHER -> IF tsig.mac # ComputeMac(keys[tsig.key], body, tsig.time, prior)
                  THEN "BadSig"
                  ELSE IF time - tsig.time \notin -Fudge..Fudge THEN "BadTime" ELSE "Ok"

(* What a peer puts on its updates: encode_signed. *)
Signature(p, body) ==
    IF p.key = "none" THEN NoTsig ELSE SignWith(p.key, p.secret, body, PeerClock(p), NoMac)

(***************************************************************************)
(* dns-xfr: the records that answer a transfer, in messages of Chunk.      *)
(***************************************************************************)
Soa(serial) == <<"SOA", serial>>
IsSoa(r) == r[1] = "SOA"

Listed(records) ==
    LET upTo[i \in 0..Len(HashOrder)] ==
            IF i = 0 THEN <<>>
            ELSE IF HashOrder[i] \in records THEN Append(upTo[i - 1], HashOrder[i]) ELSE upTo[i - 1]
    IN  upTo[Len(HashOrder)]
AllRecords(z) == <<Soa(z.serial)>> \o Listed(z.records)

(* Journal::record, of which the last Depth deltas are kept.  Every change *)
(* has a new serial, so both SOA records are part of what changes.         *)
Without(z, other) == [serial |-> z.serial, records |-> z.records \ other.records]
Delta(old, new) ==
    [from |-> old.serial, to |-> new.serial,
     deleted |-> AllRecords(Without(old, new)), added |-> AllRecords(Without(new, old))]

Journaled(log, old, new) ==
    LET longer == Append(log, Delta(old, new))
    IN  SubSeq(longer, Len(longer) - (IF Len(longer) > Depth THEN Depth ELSE Len(longer)) + 1,
               Len(longer))

(* Journal::chain: serials only grow here, so the deltas from one on are   *)
(* those behind it in the log, each found by the serial it starts from.    *)
HasChain(serial) ==
    serial = zone.serial \/ \E i \in DOMAIN journal : journal[i].from = serial
Chain(serial) ==
    SubSeq(journal, CHOOSE i \in DOMAIN journal : journal[i].from = serial, Len(journal))

AxfrRecords == Append(AllRecords(zone), Soa(zone.serial))

DeltaRecords(d) == <<Soa(d.from)>> \o d.deleted \o <<Soa(d.to)>> \o d.added

IxfrRecords(serial) ==
    IF ~HasChain(serial) THEN AxfrRecords
    ELSE IF serial = zone.serial THEN <<Soa(serial)>>
    ELSE LET deltas == Chain(serial)
             upTo[i \in 0..Len(deltas)] ==
                 IF i = 0 THEN <<Soa(zone.serial)>> ELSE upTo[i - 1] \o DeltaRecords(deltas[i])
         IN  Append(upTo[Len(deltas)], Soa(zone.serial))

(* frame_transfer *)
Frames(rs) ==
    [i \in 1..((Len(rs) + Chunk - 1) \div Chunk) |->
        [rcode |-> "NOERROR", records |-> SubSeq(rs, (i - 1) * Chunk + 1,
                                                 IF i * Chunk < Len(rs) THEN i * Chunk ELSE Len(rs)),
         tsig |-> NoTsig]]

Refusal(rcode) == <<[rcode |-> rcode, records |-> <<>>, tsig |-> NoTsig]>>

(***************************************************************************)
(* The primary.  An authorised request has a MAC when it is signed.        *)
(***************************************************************************)
(* verify_transfer_tsig, and the same test in handle_update *)
TsigAccepted(body, tsig) ==
    IF tsig = NoTsig THEN requireTsig = "none"
    ELSE /\ TsigVerify(body, tsig, KeyRing, now, NoMac) = "Ok"
         /\ requireTsig \in {"none", tsig.key}

FrameBody(f) == [rcode |-> f.rcode, records |-> f.records]

(* Mutant of SignFrames: every message is chained on the request's MAC. *)
SignFramesUnchained(frames, tsig) ==
    [i \in DOMAIN frames |->
        [frames[i] EXCEPT !.tsig = SignWith(tsig.key, KeyRing[tsig.key], FrameBody(frames[i]),
                                            now, tsig.mac)]]

(* sign_transfer_frames *)
SignFrames(frames, tsig) ==
    LET sig[i \in 0..Len(frames)] ==
            IF i = 0 THEN tsig
            ELSE SignWith(tsig.key, KeyRing[tsig.key], FrameBody(frames[i]), now, sig[i - 1].mac)
    IN  [i \in DOMAIN frames |-> [frames[i] EXCEPT !.tsig = sig[i]]]

SignedIfAsked(frames, tsig) == IF tsig = NoTsig THEN frames ELSE SignFrames(frames, tsig)

(* transfer_out *)
Response(addr, body, tsig) ==
    CASE ~IsAllowed(TransferAcl, addr) -> Refusal("REFUSED")
      [] IsAllowed(TransferAcl, addr) /\ ~TsigAccepted(body, tsig) -> Refusal("NOTAUTH")
      [] OTHER -> IF body.origin # "zone" THEN Refusal("NOTIMP")
                  ELSE SignedIfAsked(Frames(IF body.kind = "IXFR" THEN IxfrRecords(body.serial)
                                     ELSE AxfrRecords), tsig)

TransferOut ==
    /\ pull.state = "sent"
    /\ \E frames \in {Response(pull.peer.addr, pull.body, pull.tsig)} :
          pull' = [pull EXCEPT !.state = "open", !.pipe = frames]
    /\ UNCHANGED <<requireTsig, now, zone, journal, versions, datagrams, applied, updates, troubles>>

Ended == pull.state \notin {"sent", "open"}

Updated(z, u) == [serial |-> z.serial + 1, records |-> (z.records \cup u.add) \ u.delete]

Trouble == troubles < MaxTroubles /\ troubles' = troubles + 1

(* handle_update, for a datagram that may come again. *)
HandleUpdate(u) ==
    /\ u \in datagrams
    /\ \/ datagrams' = datagrams \ {u} /\ UNCHANGED troubles
       \/ Trouble /\ UNCHANGED datagrams
    /\ IF IsAllowed(UpdateAcl, u.peer.addr) /\ TsigAccepted(u.body, u.tsig)
       THEN /\ zone' = Updated(zone, u.body)
            /\ journal' = Journaled(journal, zone, zone')
            /\ versions' = versions \cup {zone'}
            /\ applied' = [peer |-> u.peer, age |-> now - u.sent]
            /\ pull' = IF Ended THEN pull ELSE [pull EXCEPT !.seen = @ \cup {zone'}]
       ELSE UNCHANGED <<zone, journal, versions, applied, pull>>
    /\ UNCHANGED <<requireTsig, now, updates>>

(***************************************************************************)
(* The peers.  A pull is over when a prefix of what was read ends it.      *)
(***************************************************************************)
Soas(rs, n) ==
    LET upTo[i \in 0..n] ==
            IF i = 0 THEN 0 ELSE IF IsSoa(rs[i]) THEN upTo[i - 1] + 1 ELSE upTo[i - 1]
    IN  upTo[n]
IsWhole(rs) == Len(rs) > 1 /\ ~IsSoa(rs[2])

Ends(kind, copy, rs, n) ==
    /\ IsSoa(rs[n])
    /\ IF kind = "AXFR" \/ IsWhole(rs) THEN Soas(rs, n) = 2
       ELSE IF Len(rs) = 1 THEN rs[1] = Soa(copy.serial)
       ELSE n > 1 /\ rs[n] = rs[1] /\ (Soas(rs, n) - 1) % (2 * SoasPerMarker) = 1

EndOf(kind, copy, rs) == {n \in DOMAIN rs : Ends(kind, copy, rs, n)}

(* Zone::from_records of everything before the closing SOA *)
WholeZone(rs, n) == [serial |-> rs[1][2], records |-> {rs[i] : i \in 2..(n - 1)}]

(* The deltas of an IXFR applied to the copy the peer has, one record at a *)
(* time: behind the first marker of a delta they are deleted, behind the   *)
(* second one added.                                                       *)
Applied(rs, j, records) ==
    IF IsSoa(rs[j]) THEN records
    ELSE IF ((Soas(rs, j) - 2) \div SoasPerMarker) % 2 = 0
    THEN records \ {rs[j]} ELSE records \cup {rs[j]}

DeltasOn(copy, rs, n) ==
    LET after[j \in 0..n] == IF j = 0 THEN copy.records ELSE Applied(rs, j, after[j - 1])
    IN  [serial |-> rs[1][2], records |-> after[n]]

PulledZone(kind, copy, rs, n) ==
    IF kind = "AXFR" \/ IsWhole(rs) THEN WholeZone(rs, n)
    ELSE IF Len(rs) = 1 THEN copy
    ELSE DeltasOn(copy, rs, n)

NoZone == [serial |-> 0, records |-> {}]

NoUpdate == [peer |-> <<>>, age |-> 0]
NoPull == [peer |-> <<>>, body |-> <<>>, tsig |-> NoTsig, prior |-> NoMac, at |-> 0, copy |-> NoZone,
           pipe |-> <<>>, got |-> <<>>, state |-> "none", whole |-> FALSE, seen |-> {}]

(* What is left of a pull that is over, and whether it got a zone that was *)
(* served in the meantime.                                                 *)
Over(state, result) ==
    [NoPull EXCEPT !.state = state, !.whole = result \in pull.seen, !.peer = pull.peer]

StartPull(p, kind, origin, copy) ==
    LET body == [kind |-> kind, origin |-> origin, serial |-> IF kind = "IXFR" THEN copy.serial ELSE 0]
        sig == Signature(p, body)
    IN  /\ pull.state = "none"
        /\ pull' = [NoPull EXCEPT !.peer = p, !.body = body, !.tsig = sig, !.prior = sig.mac,
                                  !.at = now, !.copy = copy, !.state = "sent", !.seen = {zone}]
        /\ UNCHANGED <<requireTsig, now, zone, journal, versions, datagrams, applied, updates, troubles>>

(* The reading loop of axfr_pull: messages until the end of the zone.  A   *)
(* message with a signature has to verify, chained on the one before.      *)
ReadFrame ==
    LET f == Head(pull.pipe)
        verdict == IF pull.peer.key = "none" \/ f.tsig = NoTsig THEN "Ok"
                   ELSE TsigVerify(FrameBody(f), f.tsig, [k \in {pull.peer.key} |-> pull.peer.secret],
                                   PeerClock(pull.peer), pull.prior)
        got == pull.got \o f.records
        end == EndOf(pull.body.kind, pull.copy, got)
    IN  /\ pull.state = "open" /\ pull.pipe # <<>>
        /\ \E next \in {
               CASE f.rcode # "NOERROR" -> Over(f.rcode, NoZone)
                 [] f.rcode = "NOERROR" /\ verdict # "Ok" -> Over("unverified", NoZone)
                 [] OTHER ->
                      IF end = {}
                      THEN [pull EXCEPT !.pipe = Tail(@), !.got = got,
                                        !.prior = IF f.tsig = NoTsig THEN @ ELSE f.tsig.mac]
                      ELSE Over("done", PulledZone(pull.body.kind, pull.copy, got,
                                                   CHOOSE n \in end : \A m \in end : n <= m))} :
              pull' = next
        /\ UNCHANGED <<requireTsig, now, zone, journal, versions, datagrams, applied, updates,
                       troubles>>

(* Mutant of Break: what was read so far is taken for the zone. *)
BreakDone ==
    /\ ~Ended /\ pull.got # <<>>
    /\ Trouble
    /\ pull' = Over("done", WholeZone(pull.got, Len(pull.got) + 1))
    /\ UNCHANGED <<requireTsig, now, zone, journal, versions, datagrams, applied, updates>>

Break ==
    /\ ~Ended
    /\ Trouble
    /\ pull' = Over("broken", NoZone)
    /\ UNCHANGED <<requireTsig, now, zone, journal, versions, datagrams, applied, updates>>

(* The timeout around axfr_pull; timers are prompt, see TransferTick. *)
PullTimeout ==
    /\ ~Ended
    /\ now = pull.at + XfrTimeout
    /\ pull' = Over("timedout", NoZone)
    /\ UNCHANGED <<requireTsig, now, zone, journal, versions, datagrams, applied, updates, troubles>>

SendUpdate(p) ==
    /\ updates < Len(Updates) /\ updates' = updates + 1
    /\ datagrams' = datagrams \cup {[peer |-> p, body |-> Updates[updates'],
                                      tsig |-> Signature(p, Updates[updates']), sent |-> now]}
    /\ UNCHANGED <<requireTsig, now, zone, journal, versions, pull, applied, troubles>>

LoseUpdate(u) ==
    /\ u \in datagrams
    /\ datagrams' = datagrams \ {u}
    /\ Trouble
    /\ UNCHANGED <<requireTsig, now, zone, journal, versions, pull, applied, updates>>

TransferTick ==
    /\ now < MaxTime
    /\ ~Ended => now < pull.at + XfrTimeout
    /\ now' = now + 1
    /\ UNCHANGED <<requireTsig, zone, journal, versions, pull, datagrams, applied, updates,
                   troubles>>

TransferInit ==
    /\ requireTsig \in Requirements
    /\ now = 0
    /\ zone = [serial |-> 1, records |-> FirstRecords]
    /\ journal = <<>>
    /\ versions = {zone}
    /\ pull = NoPull
    /\ datagrams = {} /\ applied = NoUpdate
    /\ updates = 0 /\ troubles = 0

TransferNext ==
    \/ \E p \in Peers, o \in Origins : StartPull(p, "AXFR", o, NoZone)
    \/ \E p \in Incremental, copy \in versions \cup {NoZone} : StartPull(p, "IXFR", "zone", copy)
    \/ \E p \in Updaters : SendUpdate(p)
    \/ TransferOut \/ ReadFrame \/ Break \/ PullTimeout
    \/ \E u \in datagrams : HandleUpdate(u) \/ LoseUpdate(u)
    \/ TransferTick

TransferSpec == TransferInit /\ [][TransferNext]_transferVars

(***************************************************************************)
(* Properties.                                                             *)
(***************************************************************************)
(* Types: no message has more than Chunk records, no journal more than     *)
(* Depth deltas.                                                           *)
TransferTypeOK ==
    /\ now \in 0..MaxTime /\ updates \in 0..Len(Updates) /\ troubles \in 0..MaxTroubles
    /\ zone \in versions
    /\ Len(journal) <= Depth
    /\ pull.state \in {"none", "sent", "open", "done", "broken", "timedout",
                       "REFUSED", "NOTAUTH", "NOTIMP", "unverified"}
    /\ \A j \in DOMAIN pull.pipe : Len(pull.pipe[j].records) <= Chunk

(* A transfer that comes to its end brings a zone that was served while it *)
(* ran, whole: however updates change the zone between its messages, where *)
(* the messages are cut, where the connection breaks, and from whichever   *)
(* earlier version an incremental transfer starts, one older than the      *)
(* journal included.                                                       *)
PulledWhole ==
    pull.state = "done" => pull.whole

(* A peer that is entitled to the zone and whose clock is not off by more  *)
(* than the fudge leaves beside the transfer timeout is never told that a  *)
(* signature is wrong, nor finds one wrong in any message of a transfer.   *)
Holds(p, key) == p.key = key /\ p.secret = KeyRing[key]
InTime(p) == p.skew + XfrTimeout \in -Fudge..Fudge /\ p.skew - XfrTimeout \in -Fudge..Fudge
PullNeverRejected ==
    /\ pull.state # "none" /\ IsAllowed(TransferAcl, pull.peer.addr) /\ InTime(pull.peer)
    /\ \E k \in DOMAIN KeyRing : Holds(pull.peer, k) /\ requireTsig \in {k, "none"}
    => pull.state \notin {"REFUSED", "NOTAUTH", "unverified"}

(* Only a peer of the ACL, with the secret of the required key if there is *)
(* one, gets records of the zone or changes it, and a signed update does   *)
(* so only as long as the time it was signed at is within the fudge: a     *)
(* datagram that is repeated or late does not come back after that.        *)
Entitled(p, acl) == IsAllowed(acl, p.addr) /\ (requireTsig # "none" => Holds(p, requireTsig))
OnlyKeyHolders ==
    /\ pull.got # <<>> \/ pull.state = "done" => Entitled(pull.peer, TransferAcl)
    /\ applied # NoUpdate =>
          /\ Entitled(applied.peer, UpdateAcl)
          /\ applied.peer.key # "none" => applied.age - applied.peer.skew \in -Fudge..Fudge
=============================================================================
