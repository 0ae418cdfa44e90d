--------------------------- MODULE TransferProofs ---------------------------
(***************************************************************************)
(* Transfers, for any peers, keys and access lists, any clocks, zones,     *)
(* updates, chunk sizes and journal depths.  The primary serves and        *)
(* updates the zone only for whom its access list and key let through; a   *)
(* transfer that ends brings one version of the zone, whole, however the   *)
(* updates of the zone fall between its messages; and a peer that is let   *)
(* through finds every message of the answer signed as it should be.       *)
(***************************************************************************)
EXTENDS TransferReads

Refused == {"REFUSED", "NOTAUTH", "NOTIMP"}

(* The primary's answer to a pull: a refusal, or all of the zone. *)
Asks(kind, copy, body) ==
    /\ body.kind = kind
    /\ kind = "AXFR" \/ (kind = "IXFR" /\ copy \in versions \cup {NoZone} /\ body.serial = copy.serial)

Sent(body) == IF body.kind = "IXFR" THEN IxfrRecords(body.serial) ELSE AxfrRecords
Refuses(resp, addr, body, tsig) ==
    \E rcode \in Refused : /\ resp = Refusal(rcode)
                           /\ IsAllowed(TransferAcl, addr) /\ TsigAccepted(body, tsig) => rcode = "NOTIMP"
Answers(resp, body, tsig) ==
    \E sig : resp = Answer(Sent(body), sig) /\ Signatures(sig, Sent(body), tsig)

LEMMA SentSeq ==
    ASSUME HistoryInv, NEW body, NEW kind, NEW copy, Asks(kind, copy, body)
    PROVE  Sent(body) \in Seq(Records)
<1>1. CASE kind = "AXFR"
  <2>1. zone \in Versions  BY Zenon DEF HistoryInv
  <2>2. Sent(body) = Append(AllRecords(zone), Soa(zone.serial))  BY <1>1, Zenon DEF Asks, AxfrRecords, Sent
  <2> QED  BY <2>1, <2>2, AxfrReads, Zenon
<1>2. CASE kind = "IXFR" /\ copy \in versions \cup {NoZone} /\ body.serial = copy.serial
  <2>1. Sent(body) = IxfrRecords(copy.serial)  BY <1>2, Zenon DEF Asks, Sent
  <2> QED  BY <1>2, <2>1, IxfrSeq, Zenon
<1> QED  BY <1>1, <1>2, Zenon DEF Asks

LEMMA SentReads ==
    ASSUME SoasPerMarker = 2, HistoryInv, zone.records # {},
           NEW body, NEW kind, NEW copy, Asks(kind, copy, body)
    PROVE  Reads(kind, copy, Sent(body), zone)
<1>1. CASE kind = "AXFR"
  <2>1. zone \in Versions  BY Zenon DEF HistoryInv
  <2>2. Sent(body) = Append(AllRecords(zone), Soa(zone.serial))  BY <1>1, Zenon DEF Asks, AxfrRecords, Sent
  <2> QED  BY <1>1, <2>1, <2>2, AxfrReads, Zenon
<1>2. CASE kind = "IXFR" /\ copy \in versions \cup {NoZone} /\ body.serial = copy.serial
  <2>1. Sent(body) = IxfrRecords(copy.serial)  BY <1>2, Zenon DEF Asks, Sent
  <2> QED  BY <1>2, <2>1, IxfrReads, Zenon
<1> QED  BY <1>1, <1>2, Zenon DEF Asks

LEMMA ResponseIs ==
    ASSUME HistoryInv, NEW addr, NEW body, NEW tsig, NEW kind, NEW copy, Asks(kind, copy, body)
    PROVE  \/ Refuses(Response(addr, body, tsig), addr, body, tsig)
           \/ Answers(Response(addr, body, tsig), body, tsig)
<1>1. CASE ~IsAllowed(TransferAcl, addr)
  <2>1. Response(addr, body, tsig) = Refusal("REFUSED")  BY <1>1, Zenon DEF Response
  <2> QED  BY <1>1, <2>1, Zenon DEF Refused, Refuses
<1>2. CASE IsAllowed(TransferAcl, addr) /\ ~TsigAccepted(body, tsig)
  <2>1. Response(addr, body, tsig) = Refusal("NOTAUTH")  BY <1>2, Zenon DEF Response
  <2> QED  BY <1>2, <2>1, Zenon DEF Refused, Refuses
<1>3. CASE IsAllowed(TransferAcl, addr) /\ TsigAccepted(body, tsig)
  <2>1. Response(addr, body, tsig) =
          IF body.origin # "zone" THEN Refusal("NOTIMP") ELSE SignedIfAsked(Frames(Sent(body)), tsig)
    BY <1>3, Zenon DEF Response, Sent
  <2>2. CASE body.origin # "zone"  BY <2>1, <2>2, Zenon DEF Refused, Refuses
  <2>3. CASE body.origin = "zone"
    <3>1. Sent(body) \in Seq(Records)  BY SentSeq, Zenon
    <3>2. Response(addr, body, tsig) = SignedIfAsked(Frames(Sent(body)), tsig)  BY <2>1, <2>3, Zenon
    <3> QED  BY <3>1, <3>2, AnswerIs, Zenon DEF Answers
  <2> QED  BY <2>2, <2>3, Zenon
<1> QED  BY <1>1, <1>2, <1>3, Zenon

(* The ways a message read from the connection goes. *)
ReadSoFar == pull.got \o Head(pull.pipe).records
Verdict ==
    IF pull.peer.key = "none" \/ Head(pull.pipe).tsig = NoTsig THEN "Ok"
    ELSE TsigVerify(FrameBody(Head(pull.pipe)), Head(pull.pipe).tsig,
                    [k \in {pull.peer.key} |-> pull.peer.secret], PeerClock(pull.peer), pull.prior)
Least(S) == CHOOSE n \in S : \A m \in S : n <= m
End == EndOf(pull.body.kind, pull.copy, ReadSoFar)
Going(next) ==
    next = [pull EXCEPT !.pipe = Tail(pull.pipe), !.got = ReadSoFar,
                        !.prior = IF Head(pull.pipe).tsig = NoTsig THEN pull.prior
                                  ELSE Head(pull.pipe).tsig.mac]
Done(next) ==
    next = Over("done", PulledZone(pull.body.kind, pull.copy, ReadSoFar, Least(End)))

LEMMA ReadFrameCases ==
    ASSUME ReadFrame
    PROVE  /\ pull.state = "open" /\ pull.pipe # <<>>
           /\ UNCHANGED <<requireTsig, now, zone, journal, versions, datagrams, applied, updates, troubles>>
           /\ \/ Head(pull.pipe).rcode # "NOERROR" /\ pull' = Over(Head(pull.pipe).rcode, NoZone)
              \/ /\ Head(pull.pipe).rcode = "NOERROR" /\ Verdict # "Ok"
                 /\ pull' = Over("unverified", NoZone)
              \/ Head(pull.pipe).rcode = "NOERROR" /\ End = {} /\ Going(pull')
              \/ Head(pull.pipe).rcode = "NOERROR" /\ End # {} /\ Done(pull')
<1> DEFINE f == Head(pull.pipe)
           more == [pull EXCEPT !.pipe = Tail(pull.pipe), !.got = ReadSoFar,
                                !.prior = IF f.tsig = NoTsig THEN pull.prior ELSE f.tsig.mac]
           done == Over("done", PulledZone(pull.body.kind, pull.copy, ReadSoFar, Least(End)))
<1>1. /\ pull.state = "open" /\ pull.pipe # <<>>
      /\ UNCHANGED <<requireTsig, now, zone, journal, versions, datagrams, applied, updates, troubles>>
      /\ pull' = CASE f.rcode # "NOERROR" -> Over(f.rcode, NoZone)
                   [] f.rcode = "NOERROR" /\ Verdict # "Ok" -> Over("unverified", NoZone)
                   [] OTHER -> IF End = {} THEN more ELSE done
  BY Zenon DEF ReadFrame, Verdict, End, ReadSoFar, Least
<1>2. Going(more) /\ Done(done)  BY Zenon DEF Going, Done
<1> HIDE DEF f, more, done
<1>3. CASE f.rcode # "NOERROR"
  <2>1. pull' = Over(f.rcode, NoZone)  BY <1>1, <1>3, Zenon
  <2> QED  BY <1>1, <1>3, <2>1, Zenon DEF f
<1>4. CASE f.rcode = "NOERROR" /\ Verdict # "Ok"
  <2>1. pull' = Over("unverified", NoZone)  BY <1>1, <1>4, Zenon
  <2> QED  BY <1>1, <1>4, <2>1, Zenon DEF f
<1>5. CASE f.rcode = "NOERROR" /\ Verdict = "Ok"
  <2>1. pull' = IF End = {} THEN more ELSE done  BY <1>1, <1>5, Zenon
  <2>2. (End = {} /\ Going(pull')) \/ (End # {} /\ Done(pull'))  BY <1>2, <2>1, Zenon
  <2> QED  BY <1>1, <1>5, <2>2, Zenon DEF f
<1> QED  BY <1>3, <1>4, <1>5, Zenon

LEMMA PullDomain ==
    DOMAIN NoPull = {"peer", "body", "tsig", "prior", "at", "copy", "pipe", "got", "state", "whole", "seen"}
  BY Zenon DEF NoPull

LEMMA PullOver ==
    ASSUME NEW state, NEW result
    PROVE  /\ Over(state, result).state = state /\ Over(state, result).got = <<>>
           /\ Over(state, result).peer = pull.peer
           /\ Over(state, result).whole = (result \in pull.seen)
           /\ DOMAIN Over(state, result) = DOMAIN NoPull
  BY Zenon DEF Over, NoPull

----------------------------------------------------------------------------
(* What a peer signed at some time. *)
SignedAt(p, body, time) ==
    IF p.key = "none" THEN NoTsig ELSE SignWith(p.key, p.secret, body, time + p.skew, NoMac)

LEMMA SignatureNow ==
    ASSUME NEW p, NEW body
    PROVE  Signature(p, body) = SignedAt(p, body, now)
  BY Zenon DEF Signature, SignedAt, PeerClock

(* Who is let through has the key that is required, and signed in time. *)
LEMMA AcceptedHolds ==
    ASSUME NEW p, NEW body, NEW time, TsigAccepted(body, SignedAt(p, body, time))
    PROVE  /\ requireTsig # "none" => Holds(p, requireTsig)
           /\ p.key # "none" => now - (time + p.skew) \in -Fudge..Fudge
<1> DEFINE tsig == SignedAt(p, body, time)
<1>1. CASE p.key = "none"
  <2>1. tsig = NoTsig  BY <1>1, Zenon DEF SignedAt
  <2> QED  BY <1>1, <2>1, Zenon DEF TsigAccepted
<1>2. CASE p.key # "none"
  <2>1. /\ tsig.key = p.key /\ tsig.time = time + p.skew
        /\ tsig.mac = ComputeMac(p.secret, body, time + p.skew, NoMac)
    BY <1>2, Zenon DEF SignedAt, SignWith
  <2>2. tsig # NoTsig  BY <1>2, <2>1 DEF NoTsig
  <2> HIDE DEF tsig
  <2>3. TsigVerify(body, tsig, KeyRing, now, NoMac) = "Ok" /\ requireTsig \in {"none", tsig.key}
    BY <2>2, Zenon DEF TsigAccepted, tsig
  <2>4. tsig.key \in DOMAIN KeyRing
    <3>1. ASSUME tsig.key \notin DOMAIN KeyRing PROVE FALSE
      <4>1. TsigVerify(body, tsig, KeyRing, now, NoMac) = "BadKey"  BY <2>2, <3>1, Zenon DEF TsigVerify
      <4> QED  BY <2>3, <4>1, Zenon
    <3> QED  BY <3>1, Zenon
  <2>5. TsigVerify(body, tsig, KeyRing, now, NoMac) =
           IF tsig.mac # ComputeMac(KeyRing[tsig.key], body, tsig.time, NoMac) THEN "BadSig"
           ELSE IF now - tsig.time \notin -Fudge..Fudge THEN "BadTime" ELSE "Ok"
    BY <2>2, <2>4, Zenon DEF TsigVerify
  <2>6. /\ tsig.mac = ComputeMac(KeyRing[tsig.key], body, tsig.time, NoMac)
        /\ now - tsig.time \in -Fudge..Fudge
    BY <2>3, <2>5, Zenon
  <2>7. p.secret = KeyRing[p.key]  BY <2>1, <2>6 DEF ComputeMac
  <2> QED  BY <2>1, <2>3, <2>6, <2>7, Zenon DEF Holds
<1> QED  BY <1>1, <1>2, Zenon

(***************************************************************************)
(* The inductive invariant: what is on its way was signed by its sender,   *)
(* and an open transfer is a refusal unless the peer is entitled to it.    *)
(***************************************************************************)
KeyInv ==
    /\ now \in Int
    /\ DOMAIN pull = DOMAIN NoPull
    /\ pull.state = "sent" =>
          \/ Entitled(pull.peer, TransferAcl)
          \/ pull.got = <<>> /\ \E t : pull.tsig = SignedAt(pull.peer, pull.body, t)
    /\ pull.state = "open" =>
          \/ Entitled(pull.peer, TransferAcl)
          \/ pull.got = <<>> /\ \E rcode \in Refused : pull.pipe = Refusal(rcode)
    /\ \A u \in datagrams : /\ u.sent \in Int /\ u.peer.skew \in Int
                            /\ u.tsig = SignedAt(u.peer, u.body, u.sent)
    /\ OnlyKeyHolders

LEMMA KeyInit == TransferInit => KeyInv
  BY DEF TransferInit, KeyInv, OnlyKeyHolders, NoPull

(* The primary's answer to a request. *)
LEMMA ResponseRight ==
    ASSUME NEW p, NEW body, NEW t
    PROVE  \/ Entitled(p, TransferAcl)
           \/ \E rcode \in Refused : Response(p.addr, body, SignedAt(p, body, t)) = Refusal(rcode)
<1> DEFINE tsig == SignedAt(p, body, t)
<1>1. CASE ~IsAllowed(TransferAcl, p.addr)
  <2>1. Response(p.addr, body, tsig) = Refusal("REFUSED")  BY <1>1, Zenon DEF Response
  <2> QED  BY <2>1, Zenon DEF Refused
<1>2. CASE IsAllowed(TransferAcl, p.addr) /\ ~TsigAccepted(body, tsig)
  <2>1. Response(p.addr, body, tsig) = Refusal("NOTAUTH")  BY <1>2, Zenon DEF Response
  <2> QED  BY <2>1, Zenon DEF Refused
<1>3. CASE IsAllowed(TransferAcl, p.addr) /\ TsigAccepted(body, tsig)
  <2>1. requireTsig # "none" => Holds(p, requireTsig)  BY <1>3, AcceptedHolds, Zenon
  <2> QED  BY <1>3, <2>1, Zenon DEF Entitled
<1> QED  BY <1>1, <1>2, <1>3, Zenon

LEMMA KeyStep == KeyInv /\ [TransferNext]_transferVars => KeyInv'
<1> SUFFICES ASSUME KeyInv, [TransferNext]_transferVars PROVE KeyInv'  BY Zenon
<1>r. UNCHANGED requireTsig
  BY Zenon DEF TransferNext, StartPull, SendUpdate, TransferOut, ReadFrame, Break, PullTimeout,
         HandleUpdate, LoseUpdate, TransferTick, transferVars
<1>e. \A p, acl : Entitled(p, acl)' <=> Entitled(p, acl)  BY <1>r, Zenon DEF Entitled, Holds
<1>1. ASSUME NEW p \in Peers \cup Incremental, NEW kind, NEW origin, NEW copy,
             StartPull(p, kind, origin, copy)
      PROVE  KeyInv'
  <2> DEFINE body == [kind |-> kind, origin |-> origin,
                      serial |-> IF kind = "IXFR" THEN copy.serial ELSE 0]
  <2>1. /\ pull' = [NoPull EXCEPT !.peer = p, !.body = body, !.tsig = Signature(p, body),
                                  !.prior = Signature(p, body).mac,
                                  !.at = now, !.copy = copy, !.state = "sent", !.seen = {zone}]
        /\ UNCHANGED <<now, datagrams, applied>>
    BY <1>1, Zenon DEF StartPull
  <2> HIDE DEF body
  <2>2. /\ DOMAIN pull' = DOMAIN NoPull /\ pull'.state = "sent" /\ pull'.got = <<>>
        /\ pull'.peer = p /\ pull'.body = body /\ pull'.tsig = SignedAt(p, body, now)
    BY <2>1, SignatureNow, Zenon DEF NoPull
  <2> QED  BY <1>e, <2>1, <2>2, Zenon DEF KeyInv, OnlyKeyHolders, SignedAt
<1>2. ASSUME NEW p \in Updaters, SendUpdate(p) PROVE KeyInv'
  <2> DEFINE u == [peer |-> p, body |-> Updates[updates'],
                   tsig |-> Signature(p, Updates[updates']), sent |-> now]
  <2>1. datagrams' = datagrams \cup {u} /\ UNCHANGED <<now, pull, applied>>
    BY <1>2, Zenon DEF SendUpdate
  <2>2. u.sent \in Int /\ u.peer.skew \in Int /\ u.tsig = SignedAt(u.peer, u.body, u.sent)
    BY SignatureNow, PeersAssumption, Zenon DEF KeyInv
  <2> HIDE DEF u
  <2> QED  BY <1>e, <2>1, <2>2, Zenon DEF KeyInv, OnlyKeyHolders, SignedAt
<1>3. CASE TransferOut
  <2>1. /\ pull.state = "sent" /\ UNCHANGED <<now, datagrams, applied>>
        /\ pull' = [pull EXCEPT !.state = "open", !.pipe = Response(pull.peer.addr, pull.body, pull.tsig)]
    BY <1>3, Zenon DEF TransferOut
  <2>2. /\ DOMAIN pull' = DOMAIN NoPull /\ pull'.state = "open" /\ pull'.got = pull.got
        /\ pull'.peer = pull.peer /\ pull'.pipe = Response(pull.peer.addr, pull.body, pull.tsig)
    BY PullDomain, <2>1, Zenon DEF KeyInv
  <2>4. \/ Entitled(pull.peer, TransferAcl)
        \/ pull.got = <<>> /\ \E rcode \in Refused : pull'.pipe = Refusal(rcode)
    BY <2>1, <2>2, ResponseRight DEF KeyInv
  <2> QED  BY <1>e, <2>1, <2>2, <2>4, Zenon DEF KeyInv, OnlyKeyHolders, SignedAt, Refusal
<1>4. CASE ReadFrame
  <2>1. pull.state = "open" /\ UNCHANGED <<now, datagrams, applied>>  BY <1>4, ReadFrameCases, Zenon
  <2>2. CASE Entitled(pull.peer, TransferAcl)
    <3>1. (\E state, result : pull' = Over(state, result)) \/ Going(pull')
      BY <1>4, ReadFrameCases, Zenon DEF Done
    <3>2. ASSUME NEW state, NEW result, pull' = Over(state, result)
          PROVE  DOMAIN pull' = DOMAIN NoPull /\ pull'.peer = pull.peer
      BY <3>2, PullOver, Zenon
    <3>3. ASSUME Going(pull') PROVE DOMAIN pull' = DOMAIN NoPull /\ pull'.peer = pull.peer
      <4>1. DOMAIN pull' = DOMAIN pull /\ pull'.peer = pull.peer  BY <3>3, PullDomain, Zenon DEF KeyInv, Going
      <4> QED  BY <4>1, Zenon DEF KeyInv
    <3>4. DOMAIN pull' = DOMAIN NoPull /\ pull'.peer = pull.peer  BY <3>1, <3>2, <3>3, Zenon
    <3> QED  BY <1>e, <2>1, <2>2, <3>4, Zenon DEF KeyInv, OnlyKeyHolders, SignedAt
  <2>3. CASE ~Entitled(pull.peer, TransferAcl)
    <3>1. PICK rcode \in Refused : pull.pipe = Refusal(rcode)  BY <2>1, <2>3, Zenon DEF KeyInv
    <3>2. Head(pull.pipe).rcode = rcode /\ rcode # "NOERROR"  BY <3>1 DEF Refusal, Refused
    <3>3. pull' = Over(rcode, NoZone)  BY <1>4, <3>2, ReadFrameCases, Zenon
    <3> QED  BY <1>e, <2>1, <3>2, <3>3, PullOver DEF KeyInv, OnlyKeyHolders, Refused
  <2> QED  BY <2>2, <2>3, Zenon
<1>5. CASE Break \/ PullTimeout
  <2>1. /\ pull' = Over("broken", NoZone) \/ pull' = Over("timedout", NoZone)
        /\ UNCHANGED <<now, datagrams, applied>>
    BY <1>5, Zenon DEF Break, PullTimeout
  <2> QED  BY <1>e, PullOver, <2>1, SMTT(30) DEF KeyInv, OnlyKeyHolders
<1>6. ASSUME NEW u \in datagrams, HandleUpdate(u) PROVE KeyInv'
  <2>1. datagrams' \subseteq datagrams /\ UNCHANGED now  BY <1>6, Zenon DEF HandleUpdate
  <2>2. /\ DOMAIN pull' = DOMAIN NoPull
        /\ \A x \in DOMAIN NoPull \ {"seen"} : pull'[x] = pull[x]
    <3>1. pull' = pull \/ pull' = [pull EXCEPT !.seen = @ \cup {zone'}]  BY <1>6, Zenon DEF HandleUpdate
    <3> QED  BY PullDomain, <3>1, Zenon DEF KeyInv
  <2>3. /\ pull'.peer = pull.peer /\ pull'.body = pull.body /\ pull'.tsig = pull.tsig
        /\ pull'.got = pull.got /\ pull'.pipe = pull.pipe /\ pull'.state = pull.state
    BY PullDomain, <2>2, Zenon
  <2>4. applied' # NoUpdate =>
           /\ Entitled(applied'.peer, UpdateAcl)
           /\ applied'.peer.key # "none" => applied'.age - applied'.peer.skew \in -Fudge..Fudge
    <3>1. CASE applied' = applied  BY <3>1, Zenon DEF KeyInv, OnlyKeyHolders
    <3>2. CASE /\ applied' = [peer |-> u.peer, age |-> now - u.sent]
               /\ IsAllowed(UpdateAcl, u.peer.addr) /\ TsigAccepted(u.body, u.tsig)
      <4>1. /\ u.sent \in Int /\ u.peer.skew \in Int /\ now \in Int
            /\ u.tsig = SignedAt(u.peer, u.body, u.sent)
        BY Zenon DEF KeyInv
      <4>2. /\ requireTsig # "none" => Holds(u.peer, requireTsig)
            /\ u.peer.key # "none" => now - (u.sent + u.peer.skew) \in -Fudge..Fudge
        BY <3>2, <4>1, AcceptedHolds, Zenon
      <4>3. now - (u.sent + u.peer.skew) = (now - u.sent) - u.peer.skew  BY <4>1
      <4>4. applied'.peer = u.peer /\ applied'.age = now - u.sent  BY <3>2, Zenon
      <4> QED  BY <3>2, <4>2, <4>3, <4>4, Zenon DEF Entitled
    <3> QED  BY <1>6, <3>1, <3>2, Zenon DEF HandleUpdate
  <2> QED  BY <1>e, <2>1, <2>2, <2>3, <2>4, Zenon DEF KeyInv, OnlyKeyHolders, SignedAt
<1>7. ASSUME NEW u \in datagrams, LoseUpdate(u) PROVE KeyInv'
  <2>1. datagrams' \subseteq datagrams /\ UNCHANGED <<now, pull, applied>>  BY <1>7, Zenon DEF LoseUpdate
  <2> QED  BY <1>e, <2>1, Zenon DEF KeyInv, OnlyKeyHolders, SignedAt
<1>8. CASE TransferTick \/ UNCHANGED transferVars
  <2>0. now \in Int  BY Zenon DEF KeyInv
  <2>1. now' \in Int /\ UNCHANGED <<pull, datagrams, applied>>
    BY <1>8, <2>0, SMTT(30) DEF TransferTick, transferVars
  <2> QED  BY <1>e, <2>1, Zenon DEF KeyInv, OnlyKeyHolders, SignedAt
<1> QED  BY <1>1, <1>2, <1>3, <1>4, <1>5, <1>6, <1>7, <1>8, Zenon DEF TransferNext

(* Only a peer of the ACL, with the secret of the required key if there is *)
(* one, gets records of the zone from transfer_out or changes it through   *)
(* handle_update, and a signed update only within the fudge of its time.   *)
THEOREM AlwaysKeyHolders == TransferSpec => []OnlyKeyHolders
<1>1. KeyInv => OnlyKeyHolders  BY Zenon DEF KeyInv
<1> QED  BY KeyInit, KeyStep, <1>1, PTL DEF TransferSpec

----------------------------------------------------------------------------
(***************************************************************************)
(* The inductive invariant behind PulledWhole: a request asks for what the *)
(* peer has a copy of, and what is left of an open pull is a refusal or    *)
(* the rest of a response that, with what was read of it, reads as a       *)
(* version served since the pull began.  The record r is never deleted.    *)
(***************************************************************************)
Sending(p, v, rs, e) ==
    /\ v \in p.seen /\ rs \in Seq(Records) /\ Reads(p.body.kind, p.copy, rs, v)
    /\ IsSeq(p.pipe) /\ Cut(p.pipe, rs, e) /\ p.got = SubSeq(rs, 1, e[0])
AsksWhole(p) == zone \in p.seen /\ p.got = <<>> /\ Asks(p.body.kind, p.copy, p.body)
GetsWhole(p) == \/ \E rcode \in Refused : p.pipe = Refusal(rcode)
                \/ \E v, rs, e : Sending(p, v, rs, e)
WholeInv(r) ==
    /\ r \in zone.records
    /\ DOMAIN pull = DOMAIN NoPull
    /\ pull.state = "sent" => AsksWhole(pull)
    /\ pull.state = "open" => GetsWhole(pull)
    /\ PulledWhole

LEMMA WholeInit == ASSUME NEW r \in FirstRecords PROVE TransferInit => WholeInv(r)
  BY DEF TransferInit, WholeInv, PulledWhole, NoPull

(* transfer_out: the zone as it is now is sent. *)
LEMMA OutWhole ==
    ASSUME SoasPerMarker = 2, HistoryInv, NEW r, WholeInv(r), TransferOut
    PROVE  WholeInv(r)'
<1>1. /\ pull.state = "sent" /\ UNCHANGED <<zone, versions>>
      /\ pull' = [pull EXCEPT !.state = "open", !.pipe = Response(pull.peer.addr, pull.body, pull.tsig)]
  BY Zenon DEF TransferOut
<1>2. /\ DOMAIN pull' = DOMAIN NoPull /\ pull'.state = "open" /\ pull'.got = pull.got
      /\ pull'.seen = pull.seen /\ pull'.copy = pull.copy /\ pull'.body = pull.body
      /\ pull'.pipe = Response(pull.peer.addr, pull.body, pull.tsig)
  BY <1>1, PullDomain, Zenon DEF WholeInv
<1>3. zone.records # {} /\ AsksWhole(pull)  BY <1>1, Zenon DEF WholeInv
<1>4. GetsWhole(pull')
  <2> DEFINE resp == Response(pull.peer.addr, pull.body, pull.tsig)
             rs == Sent(pull.body)
  <2>0. Asks(pull.body.kind, pull.copy, pull.body)  BY <1>3, Zenon DEF AsksWhole
  <2>1. Refuses(resp, pull.peer.addr, pull.body, pull.tsig) \/ Answers(resp, pull.body, pull.tsig)
    BY <2>0, ResponseIs, Zenon
  <2> HIDE DEF resp
  <2>2. CASE Refuses(resp, pull.peer.addr, pull.body, pull.tsig)
    BY <1>2, <2>2, Zenon DEF GetsWhole, Refuses, resp
  <2>3. CASE Answers(resp, pull.body, pull.tsig)
    <3>1. PICK sig : resp = Answer(rs, sig)  BY <2>3, Zenon DEF Answers
    <3>2. rs \in Seq(Records)  BY <2>0, SentSeq, Zenon
    <3>3. Reads(pull.body.kind, pull.copy, rs, zone)  BY <1>3, <2>0, SentReads, Zenon
    <3> HIDE DEF rs
    <3>4. PICK e : Cut(Answer(rs, sig), rs, e) /\ e[0] = 0  BY <3>2, AnswerCut, Zenon
    <3>5. SubSeq(rs, 1, e[0]) = <<>>  BY <3>2, <3>4
    <3>6. IsSeq(Answer(rs, sig))  BY <3>2, AnswerSeq, Zenon
    <3>7. pull'.pipe = Answer(rs, sig)  BY <1>2, <3>1, Zenon DEF resp
    <3>8. Sending(pull', zone, rs, e)
      BY <1>2, <1>3, <3>2, <3>3, <3>4, <3>5, <3>6, <3>7, Zenon DEF Sending, AsksWhole
    <3> QED  BY <3>8, Zenon DEF GetsWhole
  <2> QED  BY <2>1, <2>2, <2>3, Zenon
<1> QED  BY <1>1, <1>2, <1>4, Zenon DEF WholeInv, PulledWhole

(* axfr_pull: the message read is the next part of that response. *)
LEMMA ReadWhole ==
    ASSUME NEW r, WholeInv(r), ReadFrame
    PROVE  WholeInv(r)'
<1> DEFINE f == Head(pull.pipe)
<1>1. pull.state = "open" /\ pull.pipe # <<>> /\ UNCHANGED <<zone, versions>>  BY ReadFrameCases, Zenon
<1>0. r \in zone'.records /\ DOMAIN pull = DOMAIN NoPull  BY <1>1, Zenon DEF WholeInv
<1>2. CASE \E state, result : state \in Refused \cup {"unverified"} /\ pull' = Over(state, result)
  <2>1. PICK state, result : state \in Refused \cup {"unverified"} /\ pull' = Over(state, result)
    BY <1>2, Zenon
  <2>2. state \notin {"sent", "open", "done"}  BY <2>1, Zenon DEF Refused
  <2>3. pull'.state = state /\ DOMAIN pull' = DOMAIN NoPull  BY <2>1, PullOver, Zenon
  <2> QED  BY <1>0, <2>2, <2>3, Zenon DEF WholeInv, PulledWhole
<1>3. CASE \E rcode \in Refused : pull.pipe = Refusal(rcode)
  <2>1. PICK rcode \in Refused : pull.pipe = Refusal(rcode)  BY <1>3, Zenon
  <2>2. f.rcode = rcode /\ rcode # "NOERROR"  BY <2>1 DEF Refusal, Refused
  <2>3. pull' = Over(rcode, NoZone)  BY <2>2, ReadFrameCases, Zenon
  <2> QED  BY <1>2, <2>1, <2>3, Zenon
<1>4. ASSUME NEW v, NEW rs, NEW e, Sending(pull, v, rs, e) PROVE WholeInv(r)'
  <2>1. /\ v \in pull.seen /\ rs \in Seq(Records) /\ Reads(pull.body.kind, pull.copy, rs, v)
        /\ IsSeq(pull.pipe) /\ Cut(pull.pipe, rs, e) /\ pull.got = SubSeq(rs, 1, e[0])
    BY <1>4, Zenon DEF Sending
  <2>2. /\ f.rcode = "NOERROR" /\ IsSeq(Tail(pull.pipe))
        /\ e[1] \in 0..Len(rs) /\ SubSeq(rs, 1, e[0]) \o f.records = SubSeq(rs, 1, e[1])
        /\ \E h : Cut(Tail(pull.pipe), rs, h) /\ h[0] = e[1]
    BY <1>1, <2>1, CutTail, Zenon
  <2> DEFINE m == e[1]
  <2>3. ReadSoFar = SubSeq(rs, 1, m)  BY <2>1, <2>2, Zenon DEF ReadSoFar
  <2>4. CASE pull' = Over("unverified", NoZone)  BY <1>2, <2>4, Zenon
  <2>5. CASE Going(pull')
    <3>1. PICK prior : pull' = [pull EXCEPT !.pipe = Tail(pull.pipe), !.got = ReadSoFar, !.prior = prior]
      BY <2>5, Zenon DEF Going
    <3>2. /\ DOMAIN pull' = DOMAIN NoPull /\ pull'.state = "open" /\ pull'.got = ReadSoFar
          /\ pull'.seen = pull.seen /\ pull'.copy = pull.copy /\ pull'.body = pull.body
          /\ pull'.pipe = Tail(pull.pipe)
      BY <1>0, <1>1, <3>1, PullDomain, Zenon
    <3>3. PICK h : Cut(Tail(pull.pipe), rs, h) /\ h[0] = e[1]  BY <2>2, Zenon
    <3>4. Sending(pull', v, rs, h)  BY <2>1, <2>2, <2>3, <3>2, <3>3, Zenon DEF Sending
    <3> QED  BY <1>0, <3>2, <3>4, Zenon DEF WholeInv, PulledWhole, GetsWhole
  <2>6. CASE End # {} /\ Done(pull')
    <3> DEFINE n == Least(End)
    <3>0. Len(rs) \in Nat /\ m \in Nat /\ m <= Len(rs)  BY <2>1, <2>2
    <3>1. SubSeq(rs, 1, m) \in Seq(Records) /\ Len(SubSeq(rs, 1, m)) = m
      <4> HIDE DEF m
      <4> QED  BY <2>1, <3>0
    <3>2. End = EndOf(pull.body.kind, pull.copy, SubSeq(rs, 1, m))  BY <2>3, Zenon DEF End
    <3>3. End \in SUBSET (1..m)
      <4>1. End \in SUBSET (DOMAIN SubSeq(rs, 1, m))  BY <3>2, Zenon DEF EndOf
      <4> HIDE DEF m
      <4> QED  BY <3>1, <4>1
    <3>4. m \in 1..Len(rs) /\ End \in SUBSET Nat
      <4> HIDE DEF m
      <4>1. PICK x : x \in End  BY <2>6, Zenon
      <4>2. x \in 1..m  BY <3>3, <4>1, Zenon
      <4>3. m \in 1..Len(rs) /\ \A i \in 1..m : i \in Nat  BY <3>0, <4>2
      <4> QED  BY <3>3, <4>3, Zenon
    <3>5. n \in End
      <4>1. PICK k \in End : \A j \in End : k <= j  BY <2>6, <3>4, LeastOf, SMT
      <4> QED  BY <4>1, Zenon DEF Least
    <3>6. pull' = Over("done", PulledZone(pull.body.kind, pull.copy, SubSeq(rs, 1, m), n))
      BY <2>3, <2>6, Zenon DEF Done
    <3> HIDE DEF n, m
    <3>7. PulledZone(pull.body.kind, pull.copy, SubSeq(rs, 1, m), n) = v
      BY <2>1, <3>2, <3>4, <3>5, Zenon DEF Reads
    <3>8. pull' = Over("done", v)  BY <3>6, <3>7, Zenon
    <3>9. pull'.state = "done" /\ pull'.whole = (v \in pull.seen) /\ DOMAIN pull' = DOMAIN NoPull
      BY <3>8, PullOver, Zenon
    <3> QED  BY <1>0, <2>1, <3>9, Zenon DEF WholeInv, PulledWhole
  <2> QED  BY <2>2, <2>4, <2>5, <2>6, ReadFrameCases, Zenon
<1> QED  BY <1>1, <1>3, <1>4, Zenon DEF WholeInv, GetsWhole

LEMMA WholeStep ==
    ASSUME SoasPerMarker = 2, HistoryInv,
           NEW r, \A i \in DOMAIN Updates : r \notin Updates[i].delete
    PROVE  WholeInv(r) /\ [TransferNext]_transferVars => WholeInv(r)'
<1> SUFFICES ASSUME WholeInv(r), [TransferNext]_transferVars PROVE WholeInv(r)'  BY Zenon
<1>1. ASSUME NEW p, NEW kind, NEW origin, NEW copy, StartPull(p, kind, origin, copy),
             kind = "AXFR" \/ (kind = "IXFR" /\ copy \in versions \cup {NoZone})
      PROVE  WholeInv(r)'
  <2> DEFINE body == [kind |-> kind, origin |-> origin,
                      serial |-> IF kind = "IXFR" THEN copy.serial ELSE 0]
  <2>1. /\ \E tsig, prior :
              pull' = [NoPull EXCEPT !.peer = p, !.body = body, !.tsig = tsig, !.prior = prior,
                                     !.at = now, !.copy = copy, !.state = "sent", !.seen = {zone}]
        /\ UNCHANGED <<zone, versions>>
    BY <1>1, Zenon DEF StartPull
  <2>2. body.kind = kind /\ (kind = "IXFR" => body.serial = copy.serial)  BY Zenon
  <2> HIDE DEF body
  <2>3. /\ DOMAIN pull' = DOMAIN NoPull /\ pull'.state = "sent" /\ pull'.got = <<>>
        /\ pull'.seen = {zone} /\ pull'.copy = copy /\ pull'.body = body
    BY <2>1, Zenon DEF NoPull
  <2>4. AsksWhole(pull)'  BY <1>1, <2>1, <2>2, <2>3, Zenon DEF AsksWhole, Asks
  <2> QED  BY <2>1, <2>3, <2>4, Zenon DEF WholeInv, PulledWhole
<1>2. CASE TransferOut  BY <1>2, OutWhole, Zenon
<1>3. CASE ReadFrame  BY <1>3, ReadWhole, Zenon
<1>4. CASE Break \/ PullTimeout
  <2>1. /\ pull' = Over("broken", NoZone) \/ pull' = Over("timedout", NoZone)
        /\ UNCHANGED zone
    BY <1>4, Zenon DEF Break, PullTimeout
  <2>2. (pull'.state = "broken" \/ pull'.state = "timedout") /\ DOMAIN pull' = DOMAIN NoPull
    <3>1. CASE pull' = Over("broken", NoZone)  BY <3>1, PullOver, Zenon
    <3>2. CASE pull' = Over("timedout", NoZone)  BY <3>2, PullOver, Zenon
    <3> QED  BY <2>1, <3>1, <3>2, Zenon
  <2>3. pull'.state \notin {"sent", "open", "done"}  BY <2>2, Zenon
  <2> QED  BY <2>1, <2>2, <2>3, Zenon DEF WholeInv, PulledWhole
<1>5. ASSUME NEW u \in datagrams, HandleUpdate(u) PROVE WholeInv(r)'
  <2>1. CASE UNCHANGED <<zone, versions, pull>>
    BY <2>1, Zenon DEF WholeInv, PulledWhole, AsksWhole, GetsWhole, Asks, Sending
  <2>2. CASE /\ zone' = Updated(zone, u.body) /\ versions' = versions \cup {zone'}
             /\ pull' = IF Ended THEN pull ELSE [pull EXCEPT !.seen = @ \cup {zone'}]
    <3>1. r \in zone'.records
      <4>1. PICK i \in DOMAIN Updates : u.body = Updates[i]  BY Zenon DEF HistoryInv
      <4>2. r \in zone.records  BY Zenon DEF WholeInv
      <4> QED  BY <2>2, <4>1, <4>2, Zenon DEF Updated
    <3>2. CASE Ended
      <4>1. pull' = pull /\ pull.state \notin {"sent", "open"}  BY <2>2, <3>2, Zenon DEF Ended
      <4> QED  BY <3>1, <4>1, Zenon DEF WholeInv, PulledWhole
    <3>3. CASE ~Ended
      <4>1. pull' = [pull EXCEPT !.seen = @ \cup {zone'}] /\ DOMAIN pull = DOMAIN NoPull
        BY <2>2, <3>3, Zenon DEF WholeInv
      <4>2. /\ DOMAIN pull' = DOMAIN NoPull /\ pull'.seen = pull.seen \cup {zone'}
            /\ pull'.state = pull.state /\ pull'.got = pull.got /\ pull'.whole = pull.whole
            /\ pull'.copy = pull.copy /\ pull'.body = pull.body /\ pull'.pipe = pull.pipe
        BY <4>1, PullDomain, Zenon
      <4>3. pull.state = "sent" => AsksWhole(pull)'
        <5>1. ASSUME AsksWhole(pull) PROVE AsksWhole(pull)'
          <6>1. zone \in pull.seen /\ pull.got = <<>> /\ Asks(pull.body.kind, pull.copy, pull.body)
            BY <5>1, Zenon DEF AsksWhole
          <6>2. Asks(pull.body.kind, pull.copy, pull.body)'
            <7>1. versions \subseteq versions'  BY <2>2, Zenon
            <7> QED  BY <4>2, <6>1, <7>1, Zenon DEF Asks
          <6>3. zone' \in pull'.seen /\ pull'.got = <<>>  BY <4>2, <6>1, Zenon
          <6> QED  BY <6>2, <6>3, Zenon DEF AsksWhole
        <5> QED  BY <5>1, Zenon DEF WholeInv
      <4>4. pull.state = "open" => GetsWhole(pull')
        BY <4>2, Zenon DEF WholeInv, GetsWhole, Sending
      <4> QED  BY <3>1, <4>2, <4>3, <4>4, Zenon DEF WholeInv, PulledWhole
    <3> QED  BY <3>2, <3>3, Zenon
  <2> QED  BY <1>5, <2>1, <2>2, Zenon DEF HandleUpdate
<1>6. CASE \/ \E p \in Updaters : SendUpdate(p)
           \/ \E u \in datagrams : LoseUpdate(u)
           \/ TransferTick \/ UNCHANGED transferVars
  <2>1. UNCHANGED <<zone, versions, pull>>  BY <1>6, Zenon DEF SendUpdate, LoseUpdate, TransferTick, transferVars
  <2> QED  BY <2>1, Zenon DEF WholeInv, PulledWhole, AsksWhole, GetsWhole, Asks, Sending
<1> QED  BY <1>1, <1>2, <1>3, <1>4, <1>5, <1>6, Zenon DEF TransferNext

(***************************************************************************)
(* A transfer that ends well gives the peer exactly one version of the     *)
(* zone that was served while it ran: the one transfer_out took its        *)
(* records from, whether it sent the zone whole, the deltas of the journal *)
(* or the zone in place of deltas it no longer had, and whatever           *)
(* handle_update did to zone and journal between two messages.  The peer   *)
(* takes two SOA records for a marker of an IXFR, which is what            *)
(* Journal::record leads to; and one record outlives all updates, as the   *)
(* NS records at the apex do, since two SOA records alone are a zone to    *)
(* one reader and the end of the deltas to another.                        *)
(***************************************************************************)
THEOREM AlwaysPulledWhole ==
    ASSUME SoasPerMarker = 2,
           NEW CONSTANT r \in FirstRecords, \A i \in DOMAIN Updates : r \notin Updates[i].delete
    PROVE  TransferSpec => []PulledWhole
<1>1. TransferInit => HistoryInv /\ WholeInv(r)  BY HistoryInit, WholeInit, Zenon
<1>2. HistoryInv /\ WholeInv(r) /\ [TransferNext]_transferVars => HistoryInv' /\ WholeInv(r)'
  BY HistoryStep, WholeStep, Zenon
<1>3. WholeInv(r) => PulledWhole  BY Zenon DEF WholeInv
<1> QED  BY <1>1, <1>2, <1>3, PTL DEF TransferSpec

----------------------------------------------------------------------------
(* A peer whose requests and messages must not be found wrong. *)
Keyed(p) == \E k \in DOMAIN KeyRing : Holds(p, k) /\ requireTsig \in {k, "none"}
Welcome(p) == IsAllowed(TransferAcl, p.addr) /\ InTime(p) /\ Keyed(p)

(* What a signature made with a key that is known says. *)
LEMMA VerifiedOk ==
    ASSUME NEW body, NEW key, key # "none", NEW secret, NEW keys, NEW t, NEW time, NEW prior,
           key \in DOMAIN keys, keys[key] = secret, time - t \in -Fudge..Fudge
    PROVE  /\ SignWith(key, secret, body, t, prior) # NoTsig
           /\ TsigVerify(body, SignWith(key, secret, body, t, prior), keys, time, prior) = "Ok"
<1> DEFINE tsig == SignWith(key, secret, body, t, prior)
<1>1. tsig.key = key /\ tsig.time = t /\ tsig.mac = ComputeMac(secret, body, t, prior)
  BY Zenon DEF SignWith
<1>2. tsig # NoTsig  BY <1>1 DEF NoTsig
<1> HIDE DEF tsig
<1>3. TsigVerify(body, tsig, keys, time, prior) =
         IF tsig.mac # ComputeMac(keys[tsig.key], body, tsig.time, prior) THEN "BadSig"
         ELSE IF time - tsig.time \notin -Fudge..Fudge THEN "BadTime" ELSE "Ok"
  BY <1>1, <1>2, Zenon DEF TsigVerify
<1> QED  BY <1>1, <1>2, <1>3, Zenon DEF tsig

LEMMA WelcomeAccepted ==
    ASSUME NEW p, NEW body, NEW t, Keyed(p), p.key # "none" => now - (t + p.skew) \in -Fudge..Fudge
    PROVE  TsigAccepted(body, SignedAt(p, body, t))
<1>1. PICK k \in DOMAIN KeyRing : Holds(p, k) /\ requireTsig \in {k, "none"}  BY Zenon DEF Keyed
<1>2. p.key = k /\ p.secret = KeyRing[k]  BY <1>1, Zenon DEF Holds
<1>3. CASE p.key = "none"  BY <1>1, <1>2, <1>3, Zenon DEF SignedAt, TsigAccepted
<1>4. CASE p.key # "none"
  <2> DEFINE tsig == SignWith(p.key, p.secret, body, t + p.skew, NoMac)
  <2>1. tsig # NoTsig /\ TsigVerify(body, tsig, KeyRing, now, NoMac) = "Ok"
    BY <1>1, <1>2, <1>4, VerifiedOk, Zenon
  <2>2. tsig.key = p.key  BY Zenon DEF SignWith
  <2>3. SignedAt(p, body, t) = tsig  BY <1>4, Zenon DEF SignedAt
  <2> HIDE DEF tsig
  <2> QED  BY <1>1, <1>2, <2>1, <2>2, <2>3, Zenon DEF TsigAccepted
<1> QED  BY <1>3, <1>4, Zenon

(* The messages of a response, each signed at t over the MAC before it. *)
Signs(p) == p.key # "none" /\ Welcome(p)
MacBefore(fs, i, mac) == IF i = 1 THEN mac ELSE fs[i - 1].tsig.mac
LinkedAt(fs, i, p, mac, t) ==
    Signs(p) =>
        fs[i].tsig = SignWith(p.key, p.secret, FrameBody(fs[i]), t, MacBefore(fs, i, mac))
Linked(fs, p, mac, t) ==
    \A i \in 1..Len(fs) : fs[i].rcode = "NOERROR" /\ LinkedAt(fs, i, p, mac, t)

LEMMA AnswerLinked ==
    ASSUME NEW rs \in Seq(Records), NEW p, NEW tsig, NEW sig, Signatures(sig, rs, tsig),
           Signs(p) => tsig.key = p.key /\ tsig # NoTsig
    PROVE  Linked(Answer(rs, sig), p, tsig.mac, now)
<1> DEFINE fs == Answer(rs, sig)
           d == Parts(rs)
<1>0. d \in Nat /\ Len(fs) = d /\ Len(Frames(rs)) = d  BY FramesAre, AnswerSeq, Zenon
<1> SUFFICES ASSUME NEW i \in 1..d
             PROVE  fs[i].rcode = "NOERROR" /\ LinkedAt(fs, i, p, tsig.mac, now)
  BY <1>0, Zenon DEF Linked
<1>1. \A j \in 1..d : fs[j] = Message(Part(rs, j), sig[j])  BY AnswerSeq, Zenon
<1>2. Frames(rs)[i] = Message(Part(rs, i), NoTsig)  BY FramesAre, Zenon
<1> HIDE DEF fs, d
<1>3. \A R, t : /\ Message(R, t).rcode = "NOERROR" /\ Message(R, t).records = R /\ Message(R, t).tsig = t
  BY Zenon DEF Message
<1>b. \A R, t, u : FrameBody(Message(R, t)) = FrameBody(Message(R, u))  BY Zenon DEF Message, FrameBody
<1>4. fs[i].rcode = "NOERROR"
  <2>1. fs[i] = Message(Part(rs, i), sig[i])  BY <1>1, Zenon
  <2> QED  BY <1>3, <2>1, SMT
<1>5. \A j \in 1..d : fs[j].tsig = sig[j]
  <2> TAKE j \in 1..d
  <2>1. fs[j] = Message(Part(rs, j), sig[j])  BY <1>1, Zenon
  <2> QED  BY <1>3, <2>1, SMT
<1>6. FrameBody(fs[i]) = FrameBody(Frames(rs)[i])
  <2>1. fs[i] = Message(Part(rs, i), sig[i])  BY <1>1, Zenon
  <2>2. FrameBody(Message(Part(rs, i), sig[i])) = FrameBody(Message(Part(rs, i), NoTsig))  BY <1>b, Zenon
  <2> QED  BY <1>2, <2>1, <2>2, Zenon
<1>7. ASSUME Signs(p)
      PROVE  fs[i].tsig = SignWith(p.key, p.secret, FrameBody(fs[i]), now, MacBefore(fs, i, tsig.mac))
  <2>1. Chained(sig, Frames(rs), tsig, now)  BY <1>7, Zenon DEF Signatures
  <2>2. sig[0] = tsig /\ sig[i] = Signed(i, Frames(rs), tsig, now, sig[i - 1].mac)
    BY <1>0, <2>1, Zenon DEF Chained
  <2>3. tsig.key = p.key /\ KeyRing[p.key] = p.secret  BY <1>7, Zenon DEF Signs, Welcome, Keyed, Holds
  <2>4. sig[i] = SignWith(p.key, p.secret, FrameBody(fs[i]), now, sig[i - 1].mac)
    BY <1>6, <2>2, <2>3, Zenon DEF Signed
  <2>5. sig[i - 1].mac = MacBefore(fs, i, tsig.mac)
    <3>1. CASE i = 1
      <4>1. i - 1 = 0  BY <3>1
      <4>2. sig[i - 1] = tsig  BY <2>2, <4>1, SMT
      <4> QED  BY <3>1, <4>2, Zenon DEF MacBefore
    <3>2. CASE i # 1
      <4>1. i - 1 \in 1..d  BY <1>0, <3>2
      <4>2. fs[i - 1].tsig = sig[i - 1]  BY <1>5, <4>1, Zenon
      <4> QED  BY <3>2, <4>2, Zenon DEF MacBefore
    <3> QED  BY <3>1, <3>2, Zenon
  <2>6. fs[i].tsig = sig[i]  BY <1>5, Zenon
  <2> QED  BY <2>4, <2>5, <2>6, Zenon
<1> QED  BY <1>4, <1>7, Zenon DEF LinkedAt

LEMMA LinkedTail ==
    ASSUME NEW fs, IsSeq(fs), fs # <<>>, NEW p, NEW mac, NEW t, Linked(fs, p, mac, t)
    PROVE  /\ Head(fs).rcode = "NOERROR" /\ IsSeq(Tail(fs))
           /\ Signs(p) => Head(fs).tsig = SignWith(p.key, p.secret, FrameBody(Head(fs)), t, mac)
           /\ \A next : (Signs(p) => next = Head(fs).tsig.mac) => Linked(Tail(fs), p, next, t)
<1>1. PICK X : fs \in Seq(X)  BY Zenon DEF IsSeq
<1> DEFINE n == Len(fs)
<1>2. /\ n \in Nat /\ n >= 1 /\ Head(fs) = fs[1]
      /\ Tail(fs) \in Seq(X) /\ Len(Tail(fs)) = n - 1
      /\ \A i \in 1..(n - 1) : Tail(fs)[i] = fs[i + 1]
  BY <1>1
<1> HIDE DEF n
<1>3. \A i \in 1..n : fs[i].rcode = "NOERROR" /\ LinkedAt(fs, i, p, mac, t)  BY Zenon DEF Linked, n
<1>4. 1 \in 1..n  BY <1>2
<1>5. fs[1].rcode = "NOERROR" /\ LinkedAt(fs, 1, p, mac, t)  BY <1>3, <1>4, Zenon
<1>6. Signs(p) => fs[1].tsig = SignWith(p.key, p.secret, FrameBody(fs[1]), t, mac)
  BY <1>5, Zenon DEF LinkedAt, MacBefore
<1>7. ASSUME NEW next, Signs(p) => next = fs[1].tsig.mac PROVE Linked(Tail(fs), p, next, t)
  <2> SUFFICES ASSUME NEW i \in 1..(n - 1)
               PROVE  Tail(fs)[i].rcode = "NOERROR" /\ LinkedAt(Tail(fs), i, p, next, t)
    BY <1>2, Zenon DEF Linked
  <2>1. PICK k : k = i + 1  BY Zenon
  <2>2. k \in 1..n /\ k # 1 /\ k - 1 = i  BY <1>2, <2>1
  <2>3. Tail(fs)[i] = fs[k]  BY <1>2, <2>1, Zenon
  <2>4. fs[k].rcode = "NOERROR" /\ LinkedAt(fs, k, p, mac, t)  BY <1>3, <2>2, Zenon
  <2>5. MacBefore(fs, k, mac) = fs[i].tsig.mac  BY <2>2, Zenon DEF MacBefore
  <2>6. Signs(p) => MacBefore(Tail(fs), i, next) = fs[i].tsig.mac
    <3>1. CASE i = 1  BY <1>7, <3>1, Zenon DEF MacBefore
    <3>2. CASE i # 1
      <4>0. PICK h, j : h = i - 1 /\ j = h + 1  BY Zenon
      <4>1. h \in 1..(n - 1) /\ j = i  BY <1>2, <3>2, <4>0
      <4>2. Tail(fs)[h] = fs[j]  BY <1>2, <4>0, <4>1, Zenon
      <4>3. Tail(fs)[i - 1] = fs[i]  BY <4>0, <4>1, <4>2, Zenon
      <4> QED  BY <3>2, <4>3, Zenon DEF MacBefore
    <3> QED  BY <3>1, <3>2, Zenon
  <2>7. LinkedAt(Tail(fs), i, p, next, t)
    <3> SUFFICES ASSUME Signs(p)
                 PROVE  Tail(fs)[i].tsig = SignWith(p.key, p.secret, FrameBody(Tail(fs)[i]), t,
                                                    MacBefore(Tail(fs), i, next))
      BY Zenon DEF LinkedAt
    <3>1. fs[k].tsig = SignWith(p.key, p.secret, FrameBody(fs[k]), t, MacBefore(fs, k, mac))
      BY <2>4, Zenon DEF LinkedAt
    <3>2. MacBefore(fs, k, mac) = MacBefore(Tail(fs), i, next)  BY <2>5, <2>6, Zenon
    <3> QED  BY <2>3, <3>1, <3>2, Zenon
  <2> QED  BY <2>3, <2>4, <2>7, Zenon
<1> QED  BY <1>2, <1>5, <1>6, <1>7, Zenon DEF IsSeq

----------------------------------------------------------------------------
(***************************************************************************)
(* The inductive invariant behind PullNeverRejected: a request in flight   *)
(* is signed with the time it was made, each message still to be read with *)
(* a time within the transfer timeout of it and chained on the one before, *)
(* and a refusal of a peer that is let in is of the name it asked for.     *)
(***************************************************************************)
OnTime(p) == p.at \in Int /\ p.at <= now /\ now <= p.at + XfrTimeout /\ p.peer.skew \in Int
SignedWell(p) ==
    /\ p.tsig = SignedAt(p.peer, p.body, p.at) /\ p.prior = p.tsig.mac
    /\ Asks(p.body.kind, p.copy, p.body)
VerifiesWell(p) ==
    \/ \E rcode \in Refused : p.pipe = Refusal(rcode) /\ (Welcome(p.peer) => rcode = "NOTIMP")
    \/ /\ IsSeq(p.pipe)
       /\ \E t : t \in Int /\ p.at <= t /\ t <= p.at + XfrTimeout /\ Linked(p.pipe, p.peer, p.prior, t)
Wrong == {"REFUSED", "NOTAUTH", "unverified"}
NeverWrong == Welcome(pull.peer) => pull.state \notin Wrong
VerifyInv ==
    /\ now \in Int
    /\ DOMAIN pull = DOMAIN NoPull
    /\ pull.state \in {"sent", "open"} => OnTime(pull)
    /\ pull.state = "sent" => SignedWell(pull)
    /\ pull.state = "open" => VerifiesWell(pull)
    /\ NeverWrong

LEMMA VerifyInit == TransferInit => VerifyInv
  BY DEF TransferInit, VerifyInv, NeverWrong, Wrong, NoPull

(* Within the transfer timeout no clock is off by more than the fudge. *)
LEMMA ClocksClose ==
    ASSUME NEW p, p.skew \in Int, InTime(p), NEW at \in Int,
           NEW t \in Int, at <= t, t <= at + XfrTimeout,
           NEW u \in Int, at <= u, u <= at + XfrTimeout
    PROVE  (u + p.skew) - t \in -Fudge..Fudge /\ t - (u + p.skew) \in -Fudge..Fudge
<1>1. PICK s : s = p.skew  BY Zenon
<1>2. s \in Int /\ s + XfrTimeout \in -Fudge..Fudge /\ s - XfrTimeout \in -Fudge..Fudge
  BY <1>1, Zenon DEF InTime
<1>3. Fudge \in Nat /\ XfrTimeout \in Nat  BY PeersAssumption, Zenon
<1>4. (u + s) - t \in -Fudge..Fudge /\ t - (u + s) \in -Fudge..Fudge  BY <1>2, <1>3
<1> QED  BY <1>1, <1>4, Zenon

LEMMA WelcomeSame ==
    ASSUME UNCHANGED requireTsig, NEW p
    PROVE  Welcome(p)' <=> Welcome(p)
  BY Zenon DEF Welcome, Keyed

LEMMA VerifiesSame ==
    ASSUME UNCHANGED requireTsig, NEW p
    PROVE  VerifiesWell(p)' <=> VerifiesWell(p)
<1>1. \A q : Welcome(q)' <=> Welcome(q)  BY WelcomeSame, Zenon
<1>2. \A fs, q, mac, t : Linked(fs, q, mac, t)' <=> Linked(fs, q, mac, t)
  <2>1. \A fs, i, q, mac, t : LinkedAt(fs, i, q, mac, t)' <=> LinkedAt(fs, i, q, mac, t)
    <3>1. \A q : Signs(q)' <=> Signs(q)  BY <1>1, Zenon DEF Signs
    <3> QED  BY <3>1, Zenon DEF LinkedAt
  <2> QED  BY <2>1, Zenon DEF Linked
<1> QED  BY <1>1, <1>2, Zenon DEF VerifiesWell

(* transfer_out: a peer that is welcome is answered in full. *)
LEMMA OutVerifies ==
    ASSUME HistoryInv, VerifyInv, TransferOut
    PROVE  VerifyInv'
<1>1. /\ pull.state = "sent" /\ UNCHANGED <<requireTsig, now>>
      /\ pull' = [pull EXCEPT !.state = "open", !.pipe = Response(pull.peer.addr, pull.body, pull.tsig)]
  BY Zenon DEF TransferOut
<1>2. /\ DOMAIN pull' = DOMAIN NoPull /\ pull'.state = "open" /\ pull'.peer = pull.peer
      /\ pull'.at = pull.at /\ pull'.prior = pull.prior
      /\ pull'.pipe = Response(pull.peer.addr, pull.body, pull.tsig)
  BY <1>1, PullDomain, Zenon DEF VerifyInv
<1>3. /\ SignedWell(pull) /\ OnTime(pull) /\ now \in Int
  BY <1>1, Zenon DEF VerifyInv
<1>4. /\ pull.tsig = SignedAt(pull.peer, pull.body, pull.at) /\ pull.prior = pull.tsig.mac
      /\ Asks(pull.body.kind, pull.copy, pull.body)
      /\ pull.at \in Int /\ pull.at <= now /\ now <= pull.at + XfrTimeout /\ pull.peer.skew \in Int
  BY <1>3, Zenon DEF SignedWell, OnTime
<1>5. VerifiesWell(pull')
  <2> DEFINE p == pull.peer
             resp == Response(p.addr, pull.body, pull.tsig)
             rs == Sent(pull.body)
  <2>1. ASSUME Welcome(p) PROVE IsAllowed(TransferAcl, p.addr) /\ TsigAccepted(pull.body, pull.tsig)
    <3>0. IsAllowed(TransferAcl, p.addr) /\ InTime(p) /\ Keyed(p)  BY <2>1, Zenon DEF Welcome
    <3>1. pull.at <= pull.at /\ pull.at <= pull.at + XfrTimeout  BY <1>4, PeersAssumption
    <3>2. now - (pull.at + p.skew) \in -Fudge..Fudge  BY <1>3, <1>4, <3>0, <3>1, ClocksClose, Zenon
    <3>3. TsigAccepted(pull.body, SignedAt(p, pull.body, pull.at))  BY <3>0, <3>2, WelcomeAccepted, Zenon
    <3> QED  BY <1>4, <3>0, <3>3, Zenon
  <2>2. Refuses(resp, p.addr, pull.body, pull.tsig) \/ Answers(resp, pull.body, pull.tsig)
    BY <1>4, ResponseIs, Zenon
  <2> HIDE DEF resp
  <2>3. pull'.pipe = resp /\ pull'.peer = p  BY <1>2, Zenon DEF resp
  <2>4. CASE Refuses(resp, p.addr, pull.body, pull.tsig)
    BY <2>1, <2>3, <2>4, Zenon DEF VerifiesWell, Refuses
  <2>5. CASE Answers(resp, pull.body, pull.tsig)
    <3>0. PICK sig : resp = Answer(rs, sig) /\ Signatures(sig, rs, pull.tsig)  BY <2>5, Zenon DEF Answers
    <3>r. rs \in Seq(Records)  BY <1>4, SentSeq, Zenon
    <3> HIDE DEF rs
    <3>1. Signs(p) => pull.tsig.key = p.key /\ pull.tsig # NoTsig
      <4> SUFFICES ASSUME Signs(p) PROVE pull.tsig.key = p.key /\ pull.tsig # NoTsig  BY Zenon
      <4>0. p.key # "none"  BY Zenon DEF Signs
      <4>1. pull.tsig = SignWith(p.key, p.secret, pull.body, pull.at + p.skew, NoMac)
        BY <1>4, <4>0, Zenon DEF SignedAt
      <4>2. pull.tsig.key = p.key
        <5>1. \A k, c, b, t, m : SignWith(k, c, b, t, m).key = k  BY Zenon DEF SignWith
        <5> QED  BY <4>1, <5>1, SMT
      <4>3. NoTsig.key = "none"  BY Zenon DEF NoTsig
      <4> QED  BY <4>0, <4>2, <4>3, Zenon
    <3>2. Linked(Answer(rs, sig), p, pull.tsig.mac, now)  BY <3>0, <3>r, <3>1, AnswerLinked, Zenon
    <3>3. Linked(pull'.pipe, pull'.peer, pull'.prior, now)  BY <1>2, <1>4, <2>3, <3>0, <3>2, Zenon
    <3>4. IsSeq(pull'.pipe)  BY <2>3, <3>0, <3>r, AnswerSeq, Zenon
    <3>5. pull'.at <= now /\ now <= pull'.at + XfrTimeout  BY <1>2, <1>4, Zenon
    <3> QED  BY <1>3, <3>3, <3>4, <3>5, Zenon DEF VerifiesWell
  <2> QED  BY <2>2, <2>4, <2>5, Zenon
<1>6. "open" \notin Wrong  BY Zenon DEF Wrong
<1>7. \A q : VerifiesWell(q)' <=> VerifiesWell(q)  BY <1>1, VerifiesSame, Zenon
<1>8. OnTime(pull)'  BY <1>1, <1>2, <1>4, Zenon DEF OnTime
<1> QED  BY <1>1, <1>2, <1>3, <1>5, <1>6, <1>7, <1>8, Zenon DEF VerifyInv, NeverWrong, SignedWell

(* axfr_pull: the next message is signed over the one before. *)
LEMMA ReadVerifies ==
    ASSUME VerifyInv, ReadFrame
    PROVE  VerifyInv'
<1> DEFINE f == Head(pull.pipe)
           p == pull.peer
<1>1. pull.state = "open" /\ pull.pipe # <<>> /\ UNCHANGED <<requireTsig, now>>  BY ReadFrameCases, Zenon
<1>2. /\ DOMAIN pull = DOMAIN NoPull /\ now \in Int /\ OnTime(pull) /\ VerifiesWell(pull)
      /\ pull.at \in Int /\ pull.at <= now /\ now <= pull.at + XfrTimeout /\ p.skew \in Int
  BY <1>1, Zenon DEF VerifyInv, OnTime
<1>3. \A q : Welcome(q)' <=> Welcome(q)  BY <1>1, WelcomeSame, Zenon
<1>4. ASSUME NEW state, NEW result, pull' = Over(state, result),
             state \notin {"sent", "open"}, Welcome(p) => state \notin Wrong
      PROVE  VerifyInv'
  <2>1. pull'.state = state /\ pull'.peer = p /\ DOMAIN pull' = DOMAIN NoPull  BY <1>4, PullOver, ZenonT(60)
  <2> QED  BY <1>1, <1>2, <1>3, <1>4, <2>1, Zenon DEF VerifyInv, NeverWrong
<1>5. /\ "done" \notin Wrong /\ "done" \notin {"sent", "open"} /\ "open" \notin Wrong
      /\ "unverified" \notin {"sent", "open"} /\ "NOTIMP" \notin Wrong
      /\ \A rcode \in Refused : rcode # "NOERROR" /\ rcode \notin {"sent", "open"}
  BY Zenon DEF Wrong, Refused
<1>6. ASSUME NEW rcode \in Refused, pull.pipe = Refusal(rcode), Welcome(p) => rcode = "NOTIMP"
      PROVE  VerifyInv'
  <2>1. f.rcode = rcode  BY <1>6 DEF Refusal
  <2>2. pull' = Over(rcode, NoZone)  BY <1>5, <2>1, ReadFrameCases, Zenon
  <2> QED  BY <1>4, <1>5, <1>6, <2>2, Zenon
<1>7. ASSUME IsSeq(pull.pipe), NEW t, t \in Int, pull.at <= t, t <= pull.at + XfrTimeout,
             Linked(pull.pipe, p, pull.prior, t)
      PROVE  VerifyInv'
  <2>1. /\ f.rcode = "NOERROR" /\ IsSeq(Tail(pull.pipe))
        /\ Signs(p) => f.tsig = SignWith(p.key, p.secret, FrameBody(f), t, pull.prior)
        /\ \A next : (Signs(p) => next = f.tsig.mac) => Linked(Tail(pull.pipe), p, next, t)
    BY <1>1, <1>7, LinkedTail, Zenon
  <2>2. ASSUME Signs(p) PROVE f.tsig # NoTsig /\ Verdict = "Ok"
    <3> DEFINE keys == [k \in {p.key} |-> p.secret]
    <3>1. p.key # "none" /\ InTime(p)  BY <2>2, Zenon DEF Signs, Welcome
    <3>2. (now + p.skew) - t \in -Fudge..Fudge  BY <1>2, <1>7, <3>1, ClocksClose, Zenon
    <3>3. p.key \in DOMAIN keys /\ keys[p.key] = p.secret  BY Zenon
    <3>4. PeerClock(p) - t \in -Fudge..Fudge  BY <3>2, Zenon DEF PeerClock
    <3> HIDE DEF keys
    <3>5. /\ SignWith(p.key, p.secret, FrameBody(f), t, pull.prior) # NoTsig
          /\ TsigVerify(FrameBody(f), SignWith(p.key, p.secret, FrameBody(f), t, pull.prior), keys,
                        PeerClock(p), pull.prior) = "Ok"
      BY <3>1, <3>3, <3>4, VerifiedOk, Zenon
    <3>6. f.tsig # NoTsig /\ TsigVerify(FrameBody(f), f.tsig, keys, PeerClock(p), pull.prior) = "Ok"
      BY <2>1, <2>2, <3>5, Zenon
    <3> QED  BY <3>6, Zenon DEF Verdict, keys
  <2>3. CASE Verdict # "Ok" /\ pull' = Over("unverified", NoZone)
    <3>1. ~Welcome(p)
      <4>1. CASE p.key = "none"  BY <2>3, <4>1, Zenon DEF Verdict
      <4>2. CASE p.key # "none"  BY <2>2, <2>3, <4>2, Zenon DEF Signs
      <4> QED  BY <4>1, <4>2, Zenon
    <3> QED  BY <1>4, <1>5, <2>3, <3>1, Zenon
  <2>4. CASE Going(pull')
    <3> DEFINE prior == IF f.tsig = NoTsig THEN pull.prior ELSE f.tsig.mac
    <3>1. pull' = [pull EXCEPT !.pipe = Tail(pull.pipe), !.got = ReadSoFar, !.prior = prior]
      BY <2>4, Zenon DEF Going
    <3>2. Signs(p) => prior = f.tsig.mac  BY <2>2, Zenon
    <3> HIDE DEF prior
    <3>3. /\ DOMAIN pull' = DOMAIN NoPull /\ pull'.state = "open" /\ pull'.peer = p
          /\ pull'.at = pull.at /\ pull'.prior = prior /\ pull'.pipe = Tail(pull.pipe)
      BY <1>1, <1>2, <3>1, PullDomain, Zenon
    <3>4. Linked(pull'.pipe, pull'.peer, pull'.prior, t)  BY <2>1, <3>2, <3>3, Zenon
    <3>5. IsSeq(pull'.pipe) /\ pull'.at <= t /\ t <= pull'.at + XfrTimeout  BY <1>7, <2>1, <3>3, Zenon
    <3>6. VerifiesWell(pull')  BY <1>7, <3>4, <3>5, Zenon DEF VerifiesWell
    <3>7. VerifiesWell(pull)'  BY <1>1, <3>6, VerifiesSame, Zenon
    <3>8. OnTime(pull)'  BY <1>1, <1>2, <3>3, Zenon DEF OnTime
    <3> QED  BY <1>1, <1>2, <1>5, <3>3, <3>7, <3>8, Zenon DEF VerifyInv, NeverWrong
  <2>5. CASE Done(pull')
    <3>1. PICK result : pull' = Over("done", result)  BY <2>5, Zenon DEF Done
    <3> QED  BY <1>4, <1>5, <3>1, Zenon
  <2> QED  BY <2>1, <2>3, <2>4, <2>5, ReadFrameCases, Zenon
<1> QED  BY <1>2, <1>6, <1>7, Zenon DEF VerifiesWell

LEMMA VerifyStep == HistoryInv /\ VerifyInv /\ [TransferNext]_transferVars => VerifyInv'
<1> SUFFICES ASSUME HistoryInv, VerifyInv, [TransferNext]_transferVars PROVE VerifyInv'  BY Zenon
<1>r. UNCHANGED requireTsig
  BY Zenon DEF TransferNext, StartPull, SendUpdate, TransferOut, ReadFrame, Break, PullTimeout,
         HandleUpdate, LoseUpdate, TransferTick, transferVars
<1>w. \A q : Welcome(q)' <=> Welcome(q)  BY <1>r, WelcomeSame, Zenon
<1>v. \A q : VerifiesWell(q)' <=> VerifiesWell(q)  BY <1>r, VerifiesSame, Zenon
<1>0. now \in Int /\ DOMAIN pull = DOMAIN NoPull  BY Zenon DEF VerifyInv
<1>1. ASSUME NEW p \in Peers \cup Incremental, NEW kind, NEW origin, NEW copy,
             StartPull(p, kind, origin, copy),
             kind = "AXFR" \/ (kind = "IXFR" /\ copy \in versions \cup {NoZone})
      PROVE  VerifyInv'
  <2> DEFINE body == [kind |-> kind, origin |-> origin,
                      serial |-> IF kind = "IXFR" THEN copy.serial ELSE 0]
  <2>1. /\ pull' = [NoPull EXCEPT !.peer = p, !.body = body, !.tsig = Signature(p, body),
                                  !.prior = Signature(p, body).mac,
                                  !.at = now, !.copy = copy, !.state = "sent", !.seen = {zone}]
        /\ UNCHANGED <<now, versions>>
    BY <1>1, Zenon DEF StartPull
  <2>2. body.kind = kind /\ (kind = "IXFR" => body.serial = copy.serial)  BY Zenon
  <2> HIDE DEF body
  <2>3. /\ DOMAIN pull' = DOMAIN NoPull /\ pull'.state = "sent" /\ pull'.peer = p /\ pull'.at = now
        /\ pull'.copy = copy /\ pull'.body = body /\ pull'.tsig = Signature(p, body)
        /\ pull'.prior = Signature(p, body).mac
    BY <2>1, Zenon DEF NoPull
  <2>4. SignedWell(pull)'
    <3>1. pull'.tsig = SignedAt(p, body, now)  BY <2>3, SignatureNow, Zenon
    <3>2. Asks(pull.body.kind, pull.copy, pull.body)'  BY <1>1, <2>1, <2>2, <2>3, Zenon DEF Asks
    <3>3. SignedAt(pull.peer, pull.body, pull.at)' = SignedAt(p, body, now)  BY <2>3, Zenon DEF SignedAt
    <3>4. pull'.prior = pull'.tsig.mac  BY <2>3, Zenon
    <3> QED  BY <3>1, <3>2, <3>3, <3>4, Zenon DEF SignedWell
  <2>5. OnTime(pull)'
    <3>1. now <= now /\ now <= now + XfrTimeout  BY <1>0, PeersAssumption
    <3>2. p.skew \in Int  BY PeersAssumption, Zenon
    <3> QED  BY <1>0, <2>1, <2>3, <3>1, <3>2, Zenon DEF OnTime
  <2>6. "sent" \notin Wrong  BY Zenon DEF Wrong
  <2> QED  BY <1>0, <2>1, <2>3, <2>4, <2>5, <2>6, Zenon DEF VerifyInv, NeverWrong
<1>2. CASE TransferOut  BY <1>2, OutVerifies, Zenon
<1>3. CASE ReadFrame  BY <1>3, ReadVerifies, Zenon
<1>4. CASE Break \/ PullTimeout
  <2>1. /\ pull' = Over("broken", NoZone) \/ pull' = Over("timedout", NoZone)
        /\ UNCHANGED now
    BY <1>4, Zenon DEF Break, PullTimeout
  <2>2. (pull'.state = "broken" \/ pull'.state = "timedout") /\ DOMAIN pull' = DOMAIN NoPull
    <3>1. CASE pull' = Over("broken", NoZone)  BY <3>1, PullOver, Zenon
    <3>2. CASE pull' = Over("timedout", NoZone)  BY <3>2, PullOver, Zenon
    <3> QED  BY <2>1, <3>1, <3>2, Zenon
  <2>3. pull'.state \notin {"sent", "open"} /\ pull'.state \notin Wrong  BY <2>2, Zenon DEF Wrong
  <2> QED  BY <1>0, <2>1, <2>2, <2>3, Zenon DEF VerifyInv, NeverWrong
<1>5. ASSUME UNCHANGED now, versions \subseteq versions', DOMAIN pull' = DOMAIN NoPull,
             \A x \in DOMAIN NoPull \ {"seen"} : pull'[x] = pull[x]
      PROVE  VerifyInv'
  <2>1. /\ pull'.peer = pull.peer /\ pull'.body = pull.body /\ pull'.tsig = pull.tsig
        /\ pull'.prior = pull.prior /\ pull'.at = pull.at /\ pull'.copy = pull.copy
        /\ pull'.pipe = pull.pipe /\ pull'.state = pull.state
    BY <1>5, PullDomain, Zenon
  <2>2. pull.state \in {"sent", "open"} => OnTime(pull)'  BY <1>5, <2>1, Zenon DEF VerifyInv, OnTime
  <2>3. pull.state = "sent" => SignedWell(pull)'
    <3>1. SignedAt(pull.peer, pull.body, pull.at)' = SignedAt(pull.peer, pull.body, pull.at)
      BY <2>1, Zenon DEF SignedAt
    <3>2. Asks(pull.body.kind, pull.copy, pull.body) => Asks(pull.body.kind, pull.copy, pull.body)'
      BY <1>5, <2>1, Zenon DEF Asks
    <3> QED  BY <2>1, <3>1, <3>2, Zenon DEF VerifyInv, SignedWell
  <2>4. pull.state = "open" => VerifiesWell(pull)'
    <3>1. VerifiesWell(pull) => VerifiesWell(pull')  BY <2>1, Zenon DEF VerifiesWell
    <3> QED  BY <1>v, <3>1, Zenon DEF VerifyInv
  <2>5. NeverWrong'  BY <1>w, <2>1, Zenon DEF VerifyInv, NeverWrong, Wrong
  <2> QED  BY <1>0, <1>5, <2>1, <2>2, <2>3, <2>4, <2>5, Zenon DEF VerifyInv
<1>6. ASSUME NEW u \in datagrams, HandleUpdate(u) PROVE VerifyInv'
  <2>1. /\ pull' = pull \/ pull' = [pull EXCEPT !.seen = @ \cup {zone'}]
        /\ UNCHANGED now /\ versions \subseteq versions'
    BY <1>6, Zenon DEF HandleUpdate
  <2>2. DOMAIN pull' = DOMAIN NoPull /\ \A x \in DOMAIN NoPull \ {"seen"} : pull'[x] = pull[x]
    BY <1>0, <2>1, PullDomain, Zenon
  <2> QED  BY <1>5, <2>1, <2>2, Zenon
<1>7. CASE \/ \E p \in Updaters : SendUpdate(p)
           \/ \E u \in datagrams : LoseUpdate(u)
           \/ UNCHANGED transferVars
  <2>1. UNCHANGED <<now, versions, pull>>  BY <1>7, Zenon DEF SendUpdate, LoseUpdate, transferVars
  <2> QED  BY <1>0, <1>5, <2>1, Zenon
<1>8. CASE TransferTick
  <2>1. /\ ~Ended => now < pull.at + XfrTimeout
        /\ now' = now + 1 /\ UNCHANGED <<versions, pull>>
    BY <1>8, Zenon DEF TransferTick
  <2>2. now' \in Int  BY <1>0, <2>1
  <2>3. pull.state \in {"sent", "open"} => OnTime(pull)'
    <3> SUFFICES ASSUME pull.state \in {"sent", "open"} PROVE OnTime(pull)'  BY Zenon
    <3>1. pull.at \in Int /\ pull.at <= now /\ pull.peer.skew \in Int  BY Zenon DEF VerifyInv, OnTime
    <3>2. now < pull.at + XfrTimeout  BY <2>1, Zenon DEF Ended
    <3>3. pull.at <= now' /\ now' <= pull.at + XfrTimeout
      <4>1. PICK a : a = pull.at  BY Zenon
      <4>2. a <= now + 1 /\ now + 1 <= a + XfrTimeout  BY <1>0, <3>1, <3>2, <4>1, PeersAssumption
      <4> QED  BY <2>1, <4>1, <4>2, Zenon
    <3> QED  BY <2>1, <3>1, <3>3, Zenon DEF OnTime
  <2>4. SignedWell(pull) => SignedWell(pull)'  BY <2>1, Zenon DEF SignedWell, SignedAt, Asks
  <2>5. NeverWrong'  BY <1>w, <2>1, Zenon DEF VerifyInv, NeverWrong, Wrong
  <2>6. pull.state = "open" => VerifiesWell(pull)'  BY <1>v, <2>1, Zenon DEF VerifyInv
  <2> QED  BY <1>0, <2>1, <2>2, <2>3, <2>4, <2>5, <2>6, Zenon DEF VerifyInv
<1> QED  BY <1>1, <1>2, <1>3, <1>4, <1>6, <1>7, <1>8, Zenon DEF TransferNext

(***************************************************************************)
(* A peer with a key that transfer_out accepts, whose clock is off by no   *)
(* more than the fudge leaves to the transfer timeout, is never refused a  *)
(* transfer for its address or signature, and no message that              *)
(* sign_transfer_frames signed fails to verify on its side, wherever the   *)
(* records are cut into messages.                                          *)
(***************************************************************************)
THEOREM AlwaysPullNeverRejected == TransferSpec => []PullNeverRejected
<1>1. VerifyInv => PullNeverRejected
  BY Zenon DEF VerifyInv, NeverWrong, Wrong, Welcome, Keyed, PullNeverRejected
<1>2. TransferInit => HistoryInv /\ VerifyInv  BY HistoryInit, VerifyInit, Zenon
<1>3. HistoryInv /\ VerifyInv /\ [TransferNext]_transferVars => HistoryInv' /\ VerifyInv'
  BY HistoryStep, VerifyStep, Zenon
<1> QED  BY <1>1, <1>2, <1>3, PTL DEF TransferSpec
=============================================================================
