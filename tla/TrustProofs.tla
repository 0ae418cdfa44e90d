---------------------------- MODULE TrustProofs ----------------------------
(***************************************************************************)
(* The chain of trust, for every depth of names, every DNS and any number  *)
(* of lost and damaged replies and key rollovers.                          *)
(***************************************************************************)
EXTENDS Trust, TLAPS

USE Zenon


(***************************************************************************)
(* Names: the suffixes of a name are ordered by their length.              *)
(***************************************************************************)
LEMMA Element ==
    ASSUME NEW S, NEW s \in Seq(S), NEW i \in DOMAIN s
    PROVE  i \in Nat \ {0} /\ i <= Len(s) /\ s[i] \in S
  BY SMT

LEMMA SameName ==
    ASSUME NEW m \in Seq(STRING), NEW n \in Seq(STRING), Len(m) = Len(n),
           \A j \in 1..Len(m) : m[j] = n[j]
    PROVE  m = n
  BY SMT

LEMMA SuffixAt ==
    ASSUME NEW n \in Seq(STRING), NEW i \in 1..(Len(n) + 1)
    PROVE  /\ SubSeq(n, i, Len(n)) \in Suffixes(n) /\ SubSeq(n, i, Len(n)) \in Seq(STRING)
           /\ Len(SubSeq(n, i, Len(n))) = Len(n) - i + 1
           /\ \A j \in 1..(Len(n) - i + 1) : SubSeq(n, i, Len(n))[j] = n[i + j - 1]
<1>1. SubSeq(n, i, Len(n)) \in Suffixes(n)  BY DEF Suffixes
<1>2. SubSeq(n, i, Len(n)) \in Seq(STRING) /\ Len(SubSeq(n, i, Len(n))) = Len(n) - i + 1  BY SMT
<1>3. \A j \in 1..(Len(n) - i + 1) : SubSeq(n, i, Len(n))[j] = n[i + j - 1]  BY <1>2, SMT
<1> QED  BY <1>1, <1>2, <1>3

LEMMA SuffixIsSeq ==
    ASSUME NEW n \in Seq(STRING), NEW m \in Suffixes(n)
    PROVE  /\ m \in Seq(STRING) /\ Len(m) \in Nat /\ Len(m) <= Len(n)
           /\ m = SubSeq(n, Len(n) - Len(m) + 1, Len(n))
<1>1. PICK i \in 1..(Len(n) + 1) : m = SubSeq(n, i, Len(n))  BY DEF Suffixes
<1>2. Len(m) = Len(n) - i + 1  BY <1>1, SMT
<1>3. m \in Seq(STRING)  BY <1>1, SMT
<1>4. i = Len(n) - Len(m) + 1  BY <1>2, SMT
<1> QED  BY <1>1, <1>2, <1>3, <1>4, SMT

LEMMA SuffixSelf ==
    ASSUME NEW n \in Seq(STRING)
    PROVE  n \in Suffixes(n) /\ Root \in Suffixes(n)
<1>1. n = SubSeq(n, 1, Len(n))  BY SMT
<1>2. Root = SubSeq(n, Len(n) + 1, Len(n))  BY SMT DEF Root
<1> QED  BY <1>1, <1>2, SMT DEF Suffixes

LEMMA SuffixByLength ==
    ASSUME NEW n \in Seq(STRING), NEW m \in Suffixes(n), NEW k \in Suffixes(n)
    PROVE  /\ Len(m) = Len(k) => m = k
           /\ k \in Suffixes(m) <=> Len(k) <= Len(m)
<1>1. Len(m) = Len(k) => m = k  BY SuffixIsSeq
<1>2. k \in Suffixes(m) => Len(k) <= Len(m)  BY SuffixIsSeq
<1>3. ASSUME Len(k) <= Len(m) PROVE k \in Suffixes(m)
  <2> DEFINE i == Len(m) - Len(k) + 1
  <2>1. i \in 1..(Len(m) + 1)  BY <1>3, SuffixIsSeq, SMT
  <2>2. SubSeq(m, i, Len(m)) = k
    <3>1. m = SubSeq(n, Len(n) - Len(m) + 1, Len(n)) /\ Len(m) <= Len(n) /\ m \in Seq(STRING)
      BY SuffixIsSeq
    <3>2. k = SubSeq(n, Len(n) - Len(k) + 1, Len(n)) /\ Len(k) <= Len(n) /\ k \in Seq(STRING)
      BY SuffixIsSeq
    <3> DEFINE q == SubSeq(m, i, Len(m))
               h == Len(n) - Len(m)
    <3>3. /\ q \in Seq(STRING) /\ Len(q) = Len(m) - i + 1
          /\ \A j \in 1..(Len(m) - i + 1) : q[j] = m[i + j - 1]
      BY <2>1, <3>1, SuffixAt
    <3>4. \A j \in 1..Len(m) : m[j] = n[h + j]
      <4>1. h + 1 \in 1..(Len(n) + 1)  BY <3>1, SMT
      <4>2. \A j \in 1..(Len(n) - (h + 1) + 1) : m[j] = n[(h + 1) + j - 1]  BY <3>1, <4>1, SuffixAt
      <4> QED  BY <3>1, <4>2, SMT
    <3>5. \A j \in 1..Len(k) : k[j] = n[h + i + j - 1]
      <4>1. h + i \in 1..(Len(n) + 1) /\ k = SubSeq(n, h + i, Len(n))
        <5>1. h + i = Len(n) - Len(k) + 1  BY <3>1, <3>2, SMT
        <5>2. Len(n) - Len(k) + 1 \in 1..(Len(n) + 1)  BY <3>2, SMT
        <5> QED  BY <3>2, <5>1, <5>2
      <4>2. \A j \in 1..(Len(n) - (h + i) + 1) : k[j] = n[(h + i) + j - 1]  BY <4>1, SuffixAt
      <4> QED  BY <3>1, <3>2, <4>2, SMT
    <3>6. ASSUME NEW j \in 1..Len(k) PROVE q[j] = k[j]
      <4>1. q[j] = m[i + j - 1] /\ i + j - 1 \in 1..Len(m)  BY <2>1, <3>1, <3>2, <3>3, SMT
      <4>2. m[i + j - 1] = n[h + (i + j - 1)]  BY <3>4, <4>1
      <4>3. h + (i + j - 1) = h + i + j - 1  BY <3>1, <3>2, SMT
      <4> QED  BY <3>5, <4>1, <4>2, <4>3
    <3>7. Len(q) = Len(k)  BY <3>1, <3>2, <3>3, SMT
    <3> QED  BY <3>2, <3>3, <3>6, <3>7, SameName
  <2> QED  BY <2>1, <2>2 DEF Suffixes
<1> QED  BY <1>1, <1>2, <1>3

(* The name one label longer than m on the way to n. *)
LEMMA TowardIsChild ==
    ASSUME NEW n \in Seq(STRING), NEW m \in Suffixes(n), m # n
    PROVE  /\ Toward(n, m) \in Suffixes(n) /\ Toward(n, m) # Root
           /\ Len(Toward(n, m)) = Len(m) + 1
           /\ Parent(Toward(n, m)) = m
<1>1. m \in Seq(STRING) /\ Len(m) <= Len(n) /\ m = SubSeq(n, Len(n) - Len(m) + 1, Len(n))
  BY SuffixIsSeq
<1>2. Len(m) < Len(n)
  <2>1. n \in Suffixes(n)  BY SuffixSelf
  <2> QED  BY <1>1, <2>1, SuffixByLength, SMT
<1> DEFINE i == Len(n) - Len(m)
           t == Toward(n, m)
<1>3. i \in 1..(Len(n) + 1) /\ i + 1 \in 1..(Len(n) + 1)  BY <1>1, <1>2, SMT
<1>4. t = SubSeq(n, i, Len(n))  BY DEF Toward
<1>5. /\ t \in Suffixes(n) /\ t \in Seq(STRING) /\ Len(t) = Len(m) + 1
      /\ \A j \in 1..(Len(m) + 1) : t[j] = n[i + j - 1]
  BY <1>1, <1>3, <1>4, SuffixAt, SMT
<1>6. \A j \in 1..Len(m) : m[j] = n[i + j]
  <2>1. \A j \in 1..(Len(n) - (i + 1) + 1) : SubSeq(n, i + 1, Len(n))[j] = n[(i + 1) + j - 1]
    BY <1>3, SuffixAt
  <2> QED  BY <1>1, <1>3, <2>1, SMTT(30)
<1> HIDE DEF i, t
<1>7. Tail(t) \in Seq(STRING) /\ Len(Tail(t)) = Len(m) /\ \A j \in 1..Len(m) : Tail(t)[j] = t[j + 1]
  BY <1>1, <1>5, SMT
<1>8. ASSUME NEW j \in 1..Len(m) PROVE Tail(t)[j] = m[j]
  <2>1. t[j + 1] = n[i + (j + 1) - 1]  BY <1>1, <1>5, SMT
  <2>2. i + (j + 1) - 1 = i + j  BY <1>3, SMT
  <2> QED  BY <1>6, <1>7, <2>1, <2>2
<1>9. Tail(t) = m  BY <1>1, <1>7, <1>8, SameName
<1> QED  BY <1>1, <1>5, <1>9, SMT DEF Parent, Root, t

LEMMA ParentIsSuffix ==
    ASSUME NEW n \in Seq(STRING), NEW m \in Suffixes(n), m # Root
    PROVE  /\ Parent(m) \in Suffixes(n) /\ Len(Parent(m)) = Len(m) - 1
           /\ m \notin Suffixes(Parent(m)) /\ Parent(m) # n
           /\ Suffixes(m) = {m} \cup Suffixes(Parent(m))
<1> DEFINE p == Parent(m)
<1>1. m \in Seq(STRING) /\ Len(m) \in Nat /\ Len(m) > 0 /\ Len(m) <= Len(n)  BY SuffixIsSeq, SMT DEF Root
<1>2. p \in Seq(STRING) /\ Len(p) = Len(m) - 1  BY <1>1, SMT DEF Parent
<1>3. ASSUME NEW x \in Seq(STRING), m \in Suffixes(x) PROVE p \in Suffixes(x)
  <2>1. m = SubSeq(x, Len(x) - Len(m) + 1, Len(x)) /\ Len(m) <= Len(x)  BY <1>3, SuffixIsSeq
  <2> DEFINE i == Len(x) - Len(m) + 1
             q == SubSeq(x, i + 1, Len(x))
  <2>2. i \in 1..(Len(x) + 1) /\ i + 1 \in 1..(Len(x) + 1)  BY <1>1, <2>1, SMT
  <2>3. \A j \in 1..(Len(x) - i + 1) : m[j] = x[i + j - 1]  BY <2>1, <2>2, SuffixAt
  <2>4. /\ q \in Suffixes(x) /\ q \in Seq(STRING) /\ Len(q) = Len(x) - (i + 1) + 1
        /\ \A j \in 1..(Len(x) - (i + 1) + 1) : q[j] = x[(i + 1) + j - 1]
    BY <2>2, SuffixAt
  <2>5. Len(q) = Len(p)  BY <1>1, <1>2, <2>4, SMT
  <2>6. \A j \in 1..Len(p) : p[j] = m[j + 1]  BY <1>1, <1>2, SMT DEF Parent
  <2> HIDE DEF q, p
  <2>7. \A j \in 1..Len(p) : p[j] = q[j]  BY <1>1, <1>2, <2>3, <2>4, <2>6, SMT
  <2>8. p = q  BY <1>2, <2>4, <2>5, <2>7, SameName
  <2> QED  BY <2>4, <2>8
<1>4. m \in Suffixes(m) /\ p \in Suffixes(m)  BY <1>1, <1>3, SuffixSelf
<1>5. p \in Suffixes(n)  BY <1>3
<1>6. ASSUME NEW k \in Suffixes(m) PROVE k = m \/ k \in Suffixes(p)
  <2>1. Len(k) \in Nat /\ Len(k) <= Len(m)  BY <1>1, SuffixIsSeq
  <2>2. (Len(m) = Len(k) => m = k) /\ (Len(k) <= Len(p) => k \in Suffixes(p))
    BY <1>1, <1>4, SuffixByLength
  <2> QED  BY <1>1, <1>2, <2>1, <2>2, SMT
<1>7. ASSUME NEW k \in Suffixes(p) PROVE k \in Suffixes(m)
  <2>1. k \in Seq(STRING) /\ Len(k) <= Len(p) /\ k = SubSeq(p, Len(p) - Len(k) + 1, Len(p)) /\ Len(k) \in Nat
    BY <1>2, SuffixIsSeq
  <2> DEFINE i == Len(p) - Len(k) + 1
             q == SubSeq(m, i + 1, Len(m))
  <2>2. i \in 1..(Len(p) + 1) /\ i + 1 \in 1..(Len(m) + 1)  BY <1>1, <1>2, <2>1, SMT
  <2>3. \A j \in 1..(Len(p) - i + 1) : k[j] = p[i + j - 1]  BY <1>2, <2>1, <2>2, SuffixAt, SMT
  <2>4. /\ q \in Suffixes(m) /\ q \in Seq(STRING) /\ Len(q) = Len(m) - (i + 1) + 1
        /\ \A j \in 1..(Len(m) - (i + 1) + 1) : q[j] = m[(i + 1) + j - 1]
    BY <1>1, <2>2, SuffixAt
  <2>5. \A j \in 1..Len(p) : p[j] = m[j + 1]  BY <1>1, <1>2, SMT DEF Parent
  <2> HIDE DEF q, p
  <2>6. ASSUME NEW j \in 1..Len(k) PROVE k[j] = q[j]
    <3>1. k[j] = p[i + j - 1] /\ i + j - 1 \in 1..Len(p)  BY <1>1, <1>2, <2>1, <2>2, <2>3, SMT
    <3>2. p[i + j - 1] = m[(i + j - 1) + 1]  BY <2>5, <3>1
    <3>3. q[j] = m[(i + 1) + j - 1]  BY <1>1, <1>2, <2>1, <2>2, <2>4, SMT
    <3>4. (i + j - 1) + 1 = (i + 1) + j - 1  BY <2>2, SMT
    <3> QED  BY <3>1, <3>2, <3>3, <3>4
  <2>7. k = q  BY <1>1, <1>2, <2>1, <2>4, <2>6, SameName, SMT
  <2> QED  BY <2>4, <2>7
<1>8. m \notin Suffixes(p)  BY <1>1, <1>2, SuffixIsSeq, SMT
<1>9. p # n  BY <1>1, <1>2, SMT
<1> QED  BY <1>2, <1>4, <1>5, <1>6, <1>7, <1>8, <1>9

(***************************************************************************)
(* Keys.  A set of keys from a reply is taken only if a key that is        *)
(* vouched for signed it, and then there is no foreign key in it.          *)
(***************************************************************************)
(* The zones that dnskeys finds to have a chain of trust: it walks up to   *)
(* the root label by label.                                                *)
Walked(z) == \A s \in Suffixes(z) : s \in world.signed /\ (s = Root \/ s \in world.ds)

LEMMA WalkedIsChained ==
    ASSUME world \in Worlds, NEW z \in Seq(STRING)
    PROVE  /\ Walked(z) => Chained(z)
           /\ Chained(z) /\ Gapless(z) => Walked(z)
<1>1. z \in Suffixes(z) /\ world.signed \subseteq world.zones
  BY SuffixSelf, WorldsAssumption
<1> QED  BY <1>1 DEF Walked, Chained, Gapless

ZoneKeys(z) == {Ksk(z, 0), Ksk(z, 1), Zsk(z)}

GoodReply(z, r) ==
    /\ r.keys \subseteq ZoneKeys(z) \cup {Foreign(z)}
    /\ z \notin world.signed => r.keys \subseteq {Foreign(z)}
    /\ Foreign(z) \in r.keys => r.sigs \subseteq {Foreign(z)}

GoodKeys(z, v) == v.keys # {} => Walked(z) /\ v.keys \subseteq ZoneKeys(z)

LEMMA KeysDiffer ==
    ASSUME NEW z, NEW y
    PROVE  Foreign(y) \notin ZoneKeys(z) /\ Ksk(z, 0) # Foreign(y) /\ Ksk(z, 1) # Foreign(y)
  BY DEF Foreign, ZoneKeys, Ksk, Zsk

LEMMA KsksKnown ==
    ASSUME NEW z
    PROVE  Ksks(z) \subseteq {Ksk(z, 0), Ksk(z, 1)}
<1>1. CASE roll[z] = 0  BY <1>1 DEF Ksks
<1>2. CASE roll[z] # 0 /\ roll[z] \in {1, 2}
  <2>1. Ksks(z) = {Ksk(z, 0), Ksk(z, 1)}  BY <1>2 DEF Ksks
  <2> QED  BY <2>1
<1>3. CASE roll[z] # 0 /\ roll[z] \notin {1, 2}
  <2>1. Ksks(z) = {Ksk(z, 1)}  BY <1>3 DEF Ksks
  <2> QED  BY <2>1
<1> QED  BY <1>1, <1>2, <1>3

LEMMA RepliesGood ==
    ASSUME NEW z, NEW r \in KeyReplies(z)
    PROVE  GoodReply(z, r)
<1>1. /\ HonestKeys(z).keys \subseteq ZoneKeys(z) /\ (z \notin world.signed => HonestKeys(z).keys = {})
  BY KsksKnown DEF HonestKeys, Reply, ZoneKeys
<1> DEFINE h == HonestKeys(z).keys
<1>2. CASE r = HonestKeys(z)  BY <1>1, <1>2, KeysDiffer DEF GoodReply
<1>3. CASE r = NoReply \/ r = Reply({}, {})  BY <1>3, SMT DEF GoodReply, NoReply, Reply
<1> HIDE DEF h
<1>4. CASE r = Reply(h, {})
  <2>1. r.keys = h /\ r.sigs = {}  BY <1>4 DEF Reply
  <2> QED  BY <1>1, <2>1 DEF GoodReply, h
<1>5. CASE r = Reply(h \cup {Foreign(z)}, {Foreign(z)})
  <2>1. r.keys = h \cup {Foreign(z)} /\ r.sigs = {Foreign(z)}  BY <1>5 DEF Reply
  <2> QED  BY <1>1, <2>1 DEF GoodReply, h
<1> QED  BY <1>2, <1>3, <1>4, <1>5 DEF KeyReplies, h

(* What a vouched-for key signed are keys of a signed zone. *)
LEMMA VouchedGood ==
    ASSUME NEW z, NEW r, GoodReply(z, r), NEW ds, ds \subseteq {Ksk(z, 0), Ksk(z, 1)},
           VouchedKeys(ds, r).keys # {}
    PROVE  z \in world.signed /\ VouchedKeys(ds, r).keys \subseteq ZoneKeys(z)
<1> DEFINE trusted == {k \in r.keys : \E d \in ds : VerifyDs(k, d)}
<1>1. PICK s \in r.sigs, k \in trusted : VerifyRrsig(s, k)
  BY DEF VouchedKeys, Bogus, Keys
<1>2. VouchedKeys(ds, r).keys = r.keys  BY <1>1 DEF VouchedKeys, Keys
<1>3. k \in r.keys /\ k \in r.sigs /\ k \in {Ksk(z, 0), Ksk(z, 1)}
  BY <1>1 DEF VerifyDs, VerifyRrsig
<1>4. Foreign(z) \notin r.keys  BY <1>3, KeysDiffer DEF GoodReply
<1>5. z \in world.signed  BY <1>3, KeysDiffer DEF GoodReply
<1> QED  BY <1>2, <1>4, <1>5 DEF GoodReply

LEMMA RootAlone == Root \in Seq(STRING) /\ Suffixes(Root) = {Root}
<1>1. Root \in Seq(STRING) /\ Len(Root) = 0  BY SMT DEF Root
<1>2. Root \in Suffixes(Root)  BY <1>1, SuffixSelf
<1>3. ASSUME NEW m \in Suffixes(Root) PROVE m = Root
  <2>1. Len(m) \in Nat /\ Len(m) <= Len(Root)  BY <1>1, SuffixIsSeq
  <2> QED  BY <1>1, <1>2, <2>1, SuffixByLength, SMT
<1> QED  BY <1>1, <1>2, <1>3

(* An anchored zone. *)
LEMMA AnchorGood ==
    ASSUME world \in Worlds, NEW z, AnchorsOf(z) # {}, NEW r, GoodReply(z, r)
    PROVE  GoodKeys(z, VouchedKeys({AnchorDs(z)}, r))
<1>1. \A i \in AnchorsOf(z) : i \in Nat /\ z = Root /\ Anchors[i].key \in {Ksk(z, 0), Ksk(z, 1)}
  <2>1. SUFFICES ASSUME NEW i \in AnchorsOf(z)
                 PROVE  i \in Nat /\ z = Root /\ Anchors[i].key \in {Ksk(Root, 0), Ksk(Root, 1)}
    OBVIOUS
  <2>2. i \in DOMAIN Anchors /\ Anchors[i].zone = z  BY DEF AnchorsOf
  <2>3. Anchors \in Seq([zone : {Root}, key : {Ksk(Root, 0), Ksk(Root, 1)}])  BY WorldsAssumption
  <2>4. i \in Nat /\ Anchors[i] \in [zone : {Root}, key : {Ksk(Root, 0), Ksk(Root, 1)}]
    BY <2>2, <2>3, Element
  <2> QED  BY <2>2, <2>4
<1>2. SUFFICES ASSUME VouchedKeys({AnchorDs(z)}, r).keys # {}
               PROVE  Walked(z) /\ VouchedKeys({AnchorDs(z)}, r).keys \subseteq ZoneKeys(z)
  BY DEF GoodKeys
<1>3. AnchorDs(z) \in {Ksk(z, 0), Ksk(z, 1)}
  <2>1. Anchors \in Seq([zone : {Root}, key : {Ksk(Root, 0), Ksk(Root, 1)}])  BY WorldsAssumption
  <2>2. AnchorsOf(z) = 1..Len(Anchors)
    <3>1. DOMAIN Anchors = 1..Len(Anchors)  BY <2>1, SMT
    <3>2. ASSUME NEW i \in DOMAIN Anchors PROVE Anchors[i].zone = Root
      <4>1. Anchors[i] \in [zone : {Root}, key : {Ksk(Root, 0), Ksk(Root, 1)}]  BY <2>1, Element
      <4> QED  BY <4>1
    <3>3. z = Root  BY <1>1
    <3> QED  BY <3>1, <3>2, <3>3 DEF AnchorsOf
  <2> HIDE DEF AnchorsOf
  <2>3. 1 \in AnchorsOf(z) /\ \A j \in AnchorsOf(z) : 1 <= j  BY <2>1, <2>2, SMT
  <2> QED  BY <1>1, <2>3 DEF AnchorDs
<1>4. z \in world.signed /\ VouchedKeys({AnchorDs(z)}, r).keys \subseteq ZoneKeys(z)
  BY <1>2, <1>3, VouchedGood
<1>5. z = Root  BY <1>1
<1> QED  BY <1>4, <1>5, RootAlone DEF Walked

(* A delegated zone: the keys that follow from a DS reply. *)
LEMMA DsGood ==
    ASSUME world \in Worlds, NEW z \in Seq(STRING), z # Root, GoodReply(z, held[z]),
           NEW v, GoodKeys(Parent(z), v), NEW r \in DsReplies(z)
    PROVE  GoodKeys(z, KeysByDs(z, v.keys, r))
<1> DEFINE out == KeysByDs(z, v.keys, r)
<1> SUFFICES ASSUME out.keys # {} PROVE Walked(z) /\ out.keys \subseteq ZoneKeys(z)
  BY DEF GoodKeys
<1>1. Insecure.keys = {} /\ Bogus.keys = {}  BY DEF Insecure, Bogus, Keys
<1>2. r.ok /\ r.ds # {}
  <2>1. ASSUME ~r.ok PROVE FALSE  BY <1>1, <2>1 DEF KeysByDs
  <2>2. ASSUME r.ok, r.ds = {} PROVE FALSE
    <3>1. out = Insecure \/ out = Bogus  BY <2>2 DEF KeysByDs
    <3> QED  BY <1>1, <3>1
  <2> QED  BY <2>1, <2>2
<1>3. out = IF \E s \in r.sigs, k \in v.keys : VerifyRrsig(s, k)
            THEN VouchedKeys(r.ds, held[z]) ELSE Bogus
  BY <1>2 DEF KeysByDs
<1>4. PICK k \in v.keys : k \in r.sigs  BY <1>1, <1>3 DEF VerifyRrsig
<1>5. Walked(Parent(z)) /\ k \in ZoneKeys(Parent(z))  BY <1>4 DEF GoodKeys
<1>6. r = HonestDs(z)
  <2>1. r.sigs # {} /\ ~(r.sigs \subseteq {Foreign(Cut(z))})  BY <1>4, <1>5, KeysDiffer
  <2>2. ASSUME NEW d, NEW s, NEW a, NEW t PROVE DsReply(d, s, a, t).sigs = s  BY DEF DsReply
  <2>3. NoDsReply.sigs = {}  BY DEF NoDsReply
  <2> QED  BY <2>1, <2>2, <2>3, SMT DEF DsReplies
<1>7. z \in world.ds /\ r.ds = {Ksk(z, DsGeneration(z))}
  BY <1>2, <1>6 DEF HonestDs, DsReply
<1>8. r.ds \subseteq {Ksk(z, 0), Ksk(z, 1)}  BY <1>7 DEF DsGeneration
<1>9. out = VouchedKeys(r.ds, held[z])  BY <1>1, <1>3
<1>10. z \in world.signed /\ out.keys \subseteq ZoneKeys(z)  BY <1>8, <1>9, VouchedGood
<1>11. Suffixes(z) = {z} \cup Suffixes(Parent(z))  BY SuffixSelf, ParentIsSuffix
<1> QED  BY <1>5, <1>7, <1>10, <1>11 DEF Walked

(***************************************************************************)
(* The inductive invariant.  Whatever keys are in Ctx.keys or returned are *)
(* those of a zone with a chain of trust.                                  *)
(***************************************************************************)
Proven(i) == \E g \in SigsOf(section[i]) : g = Good(g.signer) /\ Walked(g.signer)

(* Where verify_section is while dnskeys runs. *)
AtSignature ==
    /\ idx[1] \in DOMAIN section
    /\ idx[2] \in DOMAIN section[idx[1]].sigs
    /\ start = section[idx[1]].sigs[idx[2]].signer
    /\ start \in Names

Shape ==
    /\ world \in Worlds /\ section \in Sections
    /\ idx \in (Nat \ {0}) \X (Nat \ {0})
    /\ pc \in {"section", "call", "ds", "return", "done"}
    /\ start \in Seq(STRING) /\ zone \in Suffixes(start)
    /\ pc \in {"call", "ds", "return"} => AtSignature
    /\ pc = "ds" => zone # Root
    /\ DOMAIN held = Names

SecureInv ==
    /\ Shape
    /\ \A z \in Names : GoodReply(z, held[z])
    /\ \A z \in DOMAIN memo : GoodKeys(z, memo[z])
    /\ pc = "return" => GoodKeys(zone, ret)
    /\ pc = "ds" => GoodKeys(Parent(zone), ret)
    /\ anySecure => \E i \in DOMAIN section : Proven(i)
    /\ verdict = "Secure" => anySecure

LEMMA SectionElement ==
    ASSUME section \in Sections, NEW i \in DOMAIN section
    PROVE  /\ i \in Nat \ {0} /\ i <= Len(section)
           /\ section[i].zone \in Names
           /\ section[i].sigs \in Seq(Signatures)
<1>1. section \in Seq({section[j] : j \in DOMAIN section}) /\ IsRrset(section[i])
  BY SectionsAssumption
<1>2. i \in Nat \ {0} /\ i <= Len(section)  BY <1>1, Element
<1> QED  BY <1>1, <1>2 DEF IsRrset

(* A signature is good or bad for the zone it names. *)
LEMMA SignatureNamed ==
    ASSUME NEW g \in Signatures
    PROVE  /\ g.signer \in Names /\ g.by \in {Zsk(g.signer), Foreign(g.signer)}
           /\ g = Good(g.signer) \/ g = Bad(g.signer)
           /\ g = Good(g.signer) <=> g.by = Zsk(g.signer)
<1>1. ASSUME NEW n \in Names
      PROVE  /\ Good(n).signer = n /\ Good(n).by = Zsk(n)
             /\ Bad(n).signer = n /\ Bad(n).by = Foreign(n)
  BY DEF Good, Bad, Signature
<1>2. ASSUME NEW n PROVE Zsk(n) # Foreign(n)
  BY DEF Zsk, Foreign
<1>3. PICK n \in Names : g = Good(n) \/ g = Bad(n)
  BY DEF Signatures
<1>4. CASE g = Good(n)
  BY <1>1, <1>4
<1>5. CASE g = Bad(n)
  BY <1>1, <1>2, <1>5
<1> QED  BY <1>3, <1>4, <1>5

LEMMA SectionSignature ==
    ASSUME section \in Sections, NEW i \in DOMAIN section, NEW j \in DOMAIN section[i].sigs
    PROVE  section[i].sigs[j] \in Signatures /\ section[i].sigs[j] \in SigsOf(section[i])
<1>1. section[i].sigs \in Seq(Signatures)
  BY SectionElement
<1>2. section[i].sigs[j] \in Signatures
  BY <1>1, Element
<1> QED  BY <1>2 DEF SigsOf

LEMMA InitShape == Init => Shape
<1> SUFFICES ASSUME Init PROVE Shape  OBVIOUS
<1>1. zone \in Suffixes(start) /\ start \in Seq(STRING)  BY RootAlone DEF Init
<1>2. idx \in (Nat \ {0}) \X (Nat \ {0})  BY SMT DEF Init
<1>3. world \in Worlds /\ section \in Sections  BY DEF Init
<1> QED  BY <1>1, <1>2, <1>3 DEF Init, Shape

LEMMA StepShape ==
    ASSUME Shape, [Next]_vars
    PROVE  Shape'
<1>0. idx[1] \in Nat \ {0} /\ idx[2] \in Nat \ {0}  BY DEF Shape
<1>1. CASE NextSignature
  <2>1. UNCHANGED <<world, section, held>>  BY <1>1 DEF NextSignature, SectionDone
  <2>2. CASE idx[1] > Len(section)
    BY <1>1, <2>2 DEF NextSignature, SectionDone, Shape
  <2>3. CASE ~(idx[1] > Len(section))
    <3> DEFINE sigs == section[idx[1]].sigs
    <3>1. idx[1] \in DOMAIN section
      <4>1. section \in Seq({section[j] : j \in DOMAIN section})  BY SectionsAssumption DEF Shape
      <4> QED  BY <1>0, <2>3, <4>1, SMT
    <3>2. sigs \in Seq(Signatures)
      BY <3>1, SectionElement DEF Shape
    <3>3. CASE sigs = <<>>
      <4>1. idx' = <<idx[1] + 1, 1>> /\ UNCHANGED <<pc, start, zone>>
        BY <1>1, <2>3, <3>3 DEF NextSignature
      <4>2. idx' \in (Nat \ {0}) \X (Nat \ {0})  BY <1>0, <4>1, SMT
      <4>3. pc = "section"  BY <1>1 DEF NextSignature
      <4> QED  BY <2>1, <4>1, <4>2, <4>3 DEF Shape
    <3>4. CASE sigs # <<>> /\ idx[2] > Len(sigs)
      <4>1. SectionDone("Bogus")  BY <1>1, <2>3, <3>4 DEF NextSignature
      <4> QED  BY <4>1 DEF SectionDone, Shape
    <3>5. CASE sigs # <<>> /\ ~(idx[2] > Len(sigs))
      <4>1. /\ start' = sigs[idx[2]].signer /\ zone' = start' /\ pc' = "call"
            /\ UNCHANGED idx
        BY <1>1, <2>3, <3>5 DEF NextSignature
      <4>2. idx[2] \in DOMAIN sigs  BY <1>0, <3>2, <3>5, SMT
      <4>3. start' \in Names /\ start' \in Seq(STRING)
        <5>1. sigs[idx[2]] \in Signatures  BY <3>2, <4>2, Element
        <5> QED  BY <4>1, <5>1, SignatureNamed, NamesAssumption
      <4>4. zone' \in Suffixes(start')  BY <4>1, <4>3, SuffixSelf
      <4>5. AtSignature'  BY <2>1, <3>1, <4>1, <4>2, <4>3 DEF AtSignature
      <4> QED  BY <2>1, <4>1, <4>3, <4>4, <4>5 DEF Shape, Suffixes
    <3> QED  BY <3>3, <3>4, <3>5
  <2> QED  BY <2>2, <2>3
<1>2. CASE Dnskeys  BY <1>2 DEF Dnskeys, Shape, AtSignature
<1>3. CASE FetchDnskey
  <2>1. /\ UNCHANGED <<world, section, idx, start>> /\ DOMAIN held' = DOMAIN held
        /\ pc' \in {"return", "call"} /\ pc = "call"
        /\ \/ zone' = zone
           \/ zone # Root /\ zone' = Parent(zone)
    BY <1>3 DEF FetchDnskey
  <2>2. zone' \in Suffixes(start)  BY <2>1, ParentIsSuffix, SMT DEF Shape
  <2> QED  BY <2>1, <2>2 DEF Shape, AtSignature, Suffixes
<1>4. CASE ReturnToChild
  <2>1. /\ UNCHANGED <<world, section, idx, start, held>>
        /\ pc' \in {"return", "ds"} /\ pc = "return"
        /\ zone # start /\ zone' = Toward(start, zone)
    BY <1>4 DEF ReturnToChild
  <2>2. zone' \in Suffixes(start) /\ zone' # Root  BY <2>1, TowardIsChild DEF Shape
  <2> QED  BY <2>1, <2>2 DEF Shape, AtSignature, Suffixes
<1>5. CASE ReturnToSection
  <2>1. UNCHANGED <<world, section, start, zone, held>> /\ pc' = "section"  BY <1>5 DEF ReturnToSection
  <2>2. idx' \in {<<idx[1] + 1, 1>>, <<idx[1], idx[2] + 1>>}  BY <1>5 DEF ReturnToSection
  <2>3. idx' \in (Nat \ {0}) \X (Nat \ {0})  BY <1>0, <2>2, SMT
  <2> QED  BY <2>1, <2>3 DEF Shape
<1>6. CASE FetchDs
  <2>1. UNCHANGED <<world, section, idx, start, zone, held>> /\ pc' = "return" /\ pc = "ds"
    BY <1>6 DEF FetchDs
  <2> QED  BY <2>1 DEF Shape, AtSignature
<1>7. CASE (\E z \in Rolling : RollKey(z)) \/ UNCHANGED vars
  <2>1. UNCHANGED <<world, section, idx, pc, start, zone, held>>  BY <1>7 DEF RollKey, vars
  <2> QED  BY <2>1 DEF Shape, AtSignature
<1> QED  BY <1>1, <1>2, <1>3, <1>4, <1>5, <1>6, <1>7 DEF Next, Validation, Done

(* What is remembered for one zone. *)
LEMMA RememberGood ==
    ASSUME \A y \in DOMAIN memo : GoodKeys(y, memo[y]), NEW z, NEW v, GoodKeys(z, v), Remember(z, v)
    PROVE  DOMAIN memo' = DOMAIN memo \cup {z} /\ \A y \in DOMAIN memo' : GoodKeys(y, memo'[y])
  BY DEF Remember

LEMMA EmptyGood ==
    ASSUME NEW z
    PROVE  GoodKeys(z, Insecure) /\ GoodKeys(z, Bogus)
  BY DEF GoodKeys, Insecure, Bogus, Keys

LEMMA InitSecure == Init => SecureInv
<1> SUFFICES ASSUME Init PROVE SecureInv  OBVIOUS
<1>1. Shape  BY InitShape
<1>2. \A z \in Names : held[z].keys = {}  BY DEF Init, NoReply
<1>3. DOMAIN memo = {}  BY SMT DEF Init
<1>4. ~anySecure /\ verdict # "Secure" /\ pc = "section"  BY DEF Init
<1> QED  BY <1>1, <1>2, <1>3, <1>4 DEF SecureInv, GoodReply

LEMMA StepSecure ==
    ASSUME SecureInv, [Next]_vars
    PROVE  SecureInv'
<1>0. Shape /\ Shape'  BY StepShape DEF SecureInv
<1>w. UNCHANGED <<world, section>>
  BY DEF Next, Validation, Done, vars, NextSignature, SectionDone, Dnskeys, FetchDnskey,
         ReturnToChild, ReturnToSection, FetchDs, RollKey
<1>u. /\ \A z : Walked(z)' <=> Walked(z)
      /\ \A z, v : GoodKeys(z, v)' <=> GoodKeys(z, v)
      /\ \A z, r : GoodReply(z, r)' <=> GoodReply(z, r)
      /\ \A i : Proven(i)' <=> Proven(i)
  BY <1>w DEF Walked, GoodKeys, GoodReply, Proven, SigsOf
<1>z. pc \in {"call", "ds", "return"} => zone \in Names /\ zone \in Seq(STRING)
  BY <1>0, NamesAssumption DEF Shape, AtSignature
<1>1. CASE NextSignature
  <2>1. UNCHANGED <<held, memo, ret, anySecure>> /\ pc' \notin {"return", "ds"}
    BY <1>1 DEF NextSignature, SectionDone
  <2>2. verdict' = "Secure" => anySecure
    <3>1. verdict' = verdict \/ verdict' = (IF anySecure THEN "Secure" ELSE "Insecure") \/ verdict' = "Bogus"
      BY <1>1 DEF NextSignature, SectionDone
    <3> QED  BY <3>1 DEF SecureInv
  <2> QED  BY <1>0, <1>w, <1>u, <2>1, <2>2 DEF SecureInv
<1>2. CASE Dnskeys
  <2>1. UNCHANGED <<held, memo, anySecure, verdict, zone>> /\ pc' = "return"  BY <1>2 DEF Dnskeys
  <2>2. GoodKeys(zone, ret')  BY <1>2, EmptyGood DEF Dnskeys, SecureInv
  <2> QED  BY <1>0, <1>w, <1>u, <2>1, <2>2 DEF SecureInv
<1>3. CASE FetchDnskey
  <2>1. PICK reply \in KeyReplies(zone) :
           /\ held' = [held EXCEPT ![zone] = reply]
           /\ LET decided == reply.keys = {} \/ AnchorsOf(zone) # {} \/ zone = Root
                  value == CASE reply.keys = {} -> Insecure
                             [] reply.keys # {} /\ AnchorsOf(zone) # {} ->
                                   VouchedKeys({AnchorDs(zone)}, reply)
                             [] OTHER -> Bogus
              IN /\ Remember(zone, IF decided THEN value ELSE Insecure)
                 /\ ret' = IF decided THEN value ELSE ret
                 /\ pc' = IF decided THEN "return" ELSE "call"
                 /\ zone' = IF decided THEN zone ELSE Parent(zone)
    BY <1>3 DEF FetchDnskey
  <2> DEFINE decided == reply.keys = {} \/ AnchorsOf(zone) # {} \/ zone = Root
             value == CASE reply.keys = {} -> Insecure
                        [] reply.keys # {} /\ AnchorsOf(zone) # {} ->
                              VouchedKeys({AnchorDs(zone)}, reply)
                        [] OTHER -> Bogus
  <2>2. zone \in Names /\ UNCHANGED <<anySecure, verdict>>  BY <1>3, <1>z DEF FetchDnskey
  <2>3. GoodReply(zone, reply)  BY RepliesGood
  <2>4. GoodKeys(zone, value)
    <3>1. CASE reply.keys = {}  BY <3>1, EmptyGood
    <3>2. CASE reply.keys # {} /\ AnchorsOf(zone) # {}
      <4>1. GoodKeys(zone, VouchedKeys({AnchorDs(zone)}, reply))
        BY <1>0, <2>3, <3>2, AnchorGood DEF Shape
      <4>2. value = VouchedKeys({AnchorDs(zone)}, reply)  BY <3>2
      <4> QED  BY <4>1, <4>2
    <3>3. CASE reply.keys # {} /\ AnchorsOf(zone) = {}
      <4>1. value = Bogus  BY <3>3
      <4> QED  BY <4>1, EmptyGood
    <3> QED  BY <3>1, <3>2, <3>3
  <2> HIDE DEF decided, value
  <2>5. /\ Remember(zone, IF decided THEN value ELSE Insecure)
        /\ ret' = IF decided THEN value ELSE ret
        /\ pc' = IF decided THEN "return" ELSE "call"
        /\ zone' = IF decided THEN zone ELSE Parent(zone)
    BY <2>1 DEF decided, value
  <2>6. GoodKeys(zone, IF decided THEN value ELSE Insecure)  BY <2>4, EmptyGood
  <2>7. \A y \in DOMAIN memo' : GoodKeys(y, memo'[y])  BY <2>5, <2>6, RememberGood DEF SecureInv
  <2>8. \A y \in Names : GoodReply(y, held'[y])  BY <1>0, <2>1, <2>2, <2>3 DEF SecureInv, Shape
  <2>9. pc' = "return" => GoodKeys(zone', ret')  BY <2>4, <2>5
  <2>10. pc' # "ds"  BY <2>5
  <2> QED  BY <1>0, <1>w, <1>u, <2>2, <2>7, <2>8, <2>9, <2>10 DEF SecureInv
<1>4. CASE ReturnToChild
  <2>1. /\ UNCHANGED <<held, ret, anySecure, verdict>> /\ pc = "return"
        /\ zone # start /\ zone' = Toward(start, zone)
        /\ \/ ret.keys = {} /\ Remember(zone', ret) /\ pc' = pc
           \/ pc' = "ds" /\ memo' = memo
    BY <1>4 DEF ReturnToChild
  <2>2. Parent(zone') = zone  BY <1>0, <2>1, TowardIsChild DEF Shape
  <2>3. CASE ret.keys = {} /\ Remember(zone', ret) /\ pc' = pc
    <3>1. GoodKeys(zone', ret)  BY <2>3 DEF GoodKeys
    <3>2. \A y \in DOMAIN memo' : GoodKeys(y, memo'[y])  BY <2>3, <3>1, RememberGood DEF SecureInv
    <3> QED  BY <1>0, <1>w, <1>u, <2>1, <2>3, <3>1, <3>2 DEF SecureInv
  <2>4. CASE pc' = "ds" /\ memo' = memo
    BY <1>0, <1>w, <1>u, <2>1, <2>2, <2>4 DEF SecureInv
  <2> QED  BY <2>1, <2>3, <2>4
<1>5. CASE ReturnToSection
  <2> DEFINE r == section[idx[1]]
             sig == r.sigs[idx[2]]
             good == \E k \in ret.keys : VerifyRrsig(sig.by, k)
  <2>1. /\ UNCHANGED <<held, memo, ret, verdict>> /\ pc' = "section" /\ pc = "return"
        /\ zone = start /\ anySecure' = (anySecure \/ good)
    BY <1>5 DEF ReturnToSection
  <2>2. idx[1] \in DOMAIN section /\ idx[2] \in DOMAIN r.sigs /\ zone = sig.signer
    BY <1>0, <2>1 DEF Shape, AtSignature
  <2>3. ASSUME good PROVE Proven(idx[1])
    <3>1. sig.by \in ret.keys  BY <2>3 DEF VerifyRrsig
    <3>2. Walked(zone) /\ sig.by \in ZoneKeys(zone)  BY <2>1, <3>1 DEF SecureInv, GoodKeys
    <3>3. sig \in Signatures /\ sig \in SigsOf(r)  BY <1>0, <2>2, SectionSignature DEF Shape
    <3>4. sig = Good(sig.signer)
      <4>1. sig.by \in {Zsk(zone), Foreign(zone)}  BY <2>2, <3>3, SignatureNamed
      <4>2. sig.by = Zsk(zone)  BY <3>2, <4>1, KeysDiffer
      <4> QED  BY <2>2, <3>3, <4>2, SignatureNamed
    <3> QED  BY <2>2, <3>2, <3>3, <3>4 DEF Proven
  <2>4. anySecure' => \E i \in DOMAIN section : Proven(i)  BY <2>1, <2>2, <2>3 DEF SecureInv
  <2>5. verdict' = "Secure" => anySecure'  BY <2>1 DEF SecureInv
  <2> QED  BY <1>0, <1>w, <1>u, <2>1, <2>4, <2>5 DEF SecureInv
<1>6. CASE FetchDs
  <2>1. PICK reply \in DsReplies(zone) : ret' = KeysByDs(zone, ret.keys, reply)  BY <1>6 DEF FetchDs
  <2>2. /\ UNCHANGED <<held, anySecure, verdict, zone>> /\ pc = "ds" /\ pc' = "return"
        /\ Remember(zone, ret')
    BY <1>6 DEF FetchDs
  <2>3. /\ zone \in Seq(STRING) /\ zone # Root /\ GoodReply(zone, held[zone])
        /\ GoodKeys(Parent(zone), ret) /\ world \in Worlds
    BY <1>0, <1>z, <2>2 DEF SecureInv, Shape
  <2>4. GoodKeys(zone, ret')  BY <2>1, <2>3, DsGood
  <2>5. \A y \in DOMAIN memo' : GoodKeys(y, memo'[y])  BY <2>2, <2>4, RememberGood DEF SecureInv
  <2> QED  BY <1>0, <1>w, <1>u, <2>2, <2>4, <2>5 DEF SecureInv
<1>7. CASE (\E z \in Rolling : RollKey(z)) \/ UNCHANGED vars
  <2>1. UNCHANGED <<held, memo, ret, anySecure, verdict, zone, pc>>  BY <1>7 DEF RollKey, vars
  <2> QED  BY <1>0, <1>w, <1>u, <2>1 DEF SecureInv
<1> QED  BY <1>1, <1>2, <1>3, <1>4, <1>5, <1>6, <1>7 DEF Next, Validation, Done

(* A section is Secure only if some rrset in it carries a signature made   *)
(* by the key of the zone it names, and that zone has a chain of trust:    *)
(* for names of any depth, signatures that name any zone, and however many *)
(* replies to the fetches of dnskeys and delegated_ds are lost or damaged. *)
THEOREM AlwaysGenuine == Spec => []SecureIsGenuine
<1>1. SecureInv /\ [Next]_vars => SecureInv'  BY StepSecure
<1>2. SecureInv => SecureIsGenuine
  <2> SUFFICES ASSUME SecureInv, verdict = "Secure" PROVE SecureIsGenuine  BY DEF SecureIsGenuine
  <2>1. PICK i \in DOMAIN section : Proven(i)  BY DEF SecureInv
  <2>2. PICK g \in SigsOf(section[i]) : g = Good(g.signer) /\ Walked(g.signer)  BY <2>1 DEF Proven
  <2>3. section \in Sections /\ world \in Worlds  BY DEF SecureInv, Shape
  <2>4. g \in Signatures  BY <2>2, <2>3, SectionSignature DEF SigsOf
  <2>5. g.signer \in Seq(STRING)  BY <2>4, SignatureNamed, NamesAssumption
  <2>6. Chained(g.signer)  BY <2>2, <2>3, <2>5, WalkedIsChained
  <2> QED  BY <2>2, <2>6 DEF SecureIsGenuine
<1> QED  BY InitSecure, <1>1, <1>2, PTL DEF Spec

(***************************************************************************)
(* Fetches.  The zones on the stack for which the DS is still to be asked. *)
(***************************************************************************)
Undecided ==
    {z \in Suffixes(start) : \/ pc \in {"call", "return"} /\ Len(z) > Len(zone)
                             \/ pc = "ds" /\ Len(z) >= Len(zone)}

(* A fetch that was made is noted in Ctx.keys, and was the first of its    *)
(* kind.                                                                   *)
Noted(a) ==
    /\ a[1] \in DOMAIN memo
    /\ a[2] = "DS" => a[1] \notin Undecided
    /\ a[3] = FALSE

FetchInv ==
    /\ Shape
    /\ Undecided \subseteq DOMAIN memo
    /\ \A a \in asked : Noted(a)

LEMMA FirstAsk ==
    ASSUME NEW z, NEW type, Ask(z, type), \A a \in asked : ~(a[1] = z /\ a[2] = type)
    PROVE  asked' = asked \cup {<<z, type, FALSE>>}
<1>1. (\E a \in asked : a[1] = z /\ a[2] = type) = FALSE  OBVIOUS
<1> QED  BY <1>1 DEF Ask

LEMMA StackStep ==
    ASSUME Shape, [Next]_vars
    PROVE  /\ FetchDnskey => Undecided' \subseteq Undecided \cup {zone}
           /\ ~FetchDnskey => Undecided' \subseteq Undecided
           /\ FetchDs => zone \in Undecided /\ zone \notin Undecided'
           /\ ReturnToChild => pc' = "ds" \/ zone' \notin Undecided'
           /\ FetchDnskey /\ pc' = "return" => zone \notin Undecided'
           /\ Dnskeys => zone \notin Undecided
<1>0. /\ start \in Seq(STRING) /\ zone \in Suffixes(start) /\ Len(zone) \in Nat
      /\ \A z \in Suffixes(start) : Len(z) \in Nat /\ Len(z) <= Len(start)
      /\ \A z \in Suffixes(start) : Len(z) = Len(zone) => z = zone
  BY SuffixIsSeq, SuffixByLength DEF Shape
<1>1. CASE NextSignature
  <2>1. pc' \in {"section", "done"} \/ (pc' = "call" /\ zone' = start')
    BY <1>1 DEF NextSignature, SectionDone
  <2>2. start' \in Seq(STRING)  BY StepShape DEF Shape
  <2>3. \A z \in Suffixes(start') : Len(z) \in Nat /\ Len(z) <= Len(start') /\ Len(start') \in Nat
    BY <2>2, SuffixIsSeq, SMT
  <2>4. Undecided' = {}  BY <2>1, <2>3, SMT DEF Undecided, Suffixes
  <2>5. pc = "section"  BY <1>1 DEF NextSignature
  <2> QED  BY <2>4, <2>5 DEF FetchDnskey, FetchDs, ReturnToChild, Dnskeys
<1>2. CASE Dnskeys
  <2>1. UNCHANGED <<start, zone>> /\ pc = "call" /\ pc' = "return"  BY <1>2 DEF Dnskeys
  <2>2. Undecided' = Undecided /\ zone \notin Undecided  BY <1>0, <2>1, SMT DEF Undecided, Suffixes
  <2> QED  BY <2>1, <2>2 DEF FetchDs, ReturnToChild, FetchDnskey
<1>3. CASE FetchDnskey
  <2>1. /\ UNCHANGED start /\ pc = "call"
        /\ \/ zone' = zone /\ pc' = "return"
           \/ zone # Root /\ zone' = Parent(zone) /\ pc' = "call"
    BY <1>3 DEF FetchDnskey
  <2>2. zone # Root => Len(Parent(zone)) = Len(zone) - 1  BY <1>0, ParentIsSuffix
  <2>3. CASE zone' = zone /\ pc' = "return"
    <3>1. Undecided' \subseteq Undecided /\ zone \notin Undecided /\ zone \notin Undecided'
      BY <1>0, <2>1, <2>3, SMT DEF Undecided, Suffixes
    <3>2. ~FetchDs /\ ~ReturnToChild  BY <2>1 DEF FetchDs, ReturnToChild
    <3> QED  BY <1>3, <2>3, <3>1, <3>2
  <2>4. CASE zone # Root /\ zone' = Parent(zone) /\ pc' = "call"
    <3>1. Undecided' \subseteq Undecided \cup {zone}
      BY <1>0, <2>1, <2>2, <2>4, SMT DEF Undecided, Suffixes
    <3>2. ~FetchDs /\ ~ReturnToChild /\ ~Dnskeys  BY <2>1, <2>4 DEF FetchDs, ReturnToChild, Dnskeys
    <3> QED  BY <1>3, <2>4, <3>1, <3>2
  <2> QED  BY <2>1, <2>3, <2>4
<1>4. CASE ReturnToChild
  <2>1. /\ UNCHANGED start /\ pc = "return" /\ zone # start /\ zone' = Toward(start, zone)
        /\ pc' \in {"return", "ds"}
    BY <1>4 DEF ReturnToChild
  <2>2. Len(zone') = Len(zone) + 1  BY <1>0, <2>1, TowardIsChild
  <2>3. Undecided' \subseteq Undecided /\ (pc' = "ds" \/ zone' \notin Undecided')
    BY <1>0, <2>1, <2>2, SMT DEF Undecided, Suffixes
  <2> QED  BY <2>1, <2>3 DEF FetchDs, FetchDnskey, Dnskeys
<1>5. CASE ReturnToSection
  <2>1. pc' = "section" /\ pc = "return" /\ zone = start  BY <1>5 DEF ReturnToSection
  <2>2. Undecided' = {}  BY <2>1 DEF Undecided
  <2> QED  BY <2>1, <2>2 DEF FetchDs, FetchDnskey, ReturnToChild, Dnskeys
<1>6. CASE FetchDs
  <2>1. UNCHANGED <<start, zone>> /\ pc = "ds" /\ pc' = "return"  BY <1>6 DEF FetchDs
  <2>2. Undecided' \subseteq Undecided /\ zone \in Undecided /\ zone \notin Undecided'
    BY <1>0, <2>1, SMT DEF Undecided, Suffixes
  <2> QED  BY <2>1, <2>2 DEF FetchDnskey, ReturnToChild, Dnskeys
<1>7. CASE (\E z \in Rolling : RollKey(z)) \/ UNCHANGED vars
  <2>1. UNCHANGED <<start, zone, pc>>  BY <1>7 DEF RollKey, vars
  <2>2. Undecided' = Undecided  BY <2>1 DEF Undecided, Suffixes
  <2>3. ~FetchDs /\ ~Dnskeys  BY <2>1 DEF FetchDs, Dnskeys
  <2>4. ~ReturnToChild  BY <1>0, <2>1, TowardIsChild, SMT DEF ReturnToChild
  <2>5. ~FetchDnskey
    <3>1. zone # Root => Parent(zone) # zone  BY <1>0, ParentIsSuffix, SMT
    <3> QED  BY <2>1, <3>1 DEF FetchDnskey
  <2> QED  BY <2>2, <2>3, <2>4, <2>5
<1> QED  BY <1>1, <1>2, <1>3, <1>4, <1>5, <1>6, <1>7 DEF Next, Validation, Done

(* How the calls that wait change: the counterpart of StackStep. *)
LEMMA StackKept ==
    ASSUME Shape, [Next]_vars
    PROVE  /\ NextSignature \/ ReturnToSection => Undecided = {}
           /\ Dnskeys => Undecided' = Undecided
           /\ FetchDnskey => Undecided \subseteq Undecided' /\ (pc' = "call" => zone \in Undecided')
           /\ ReturnToChild => Undecided \subseteq Undecided' \cup {zone'}
           /\ ReturnToChild /\ pc' = "ds" => Undecided' = Undecided
           /\ FetchDs => Undecided \subseteq Undecided' \cup {zone}
           /\ UNCHANGED <<pc, start, zone>> => Undecided' = Undecided
<1>0. /\ start \in Seq(STRING) /\ zone \in Suffixes(start) /\ Len(zone) \in Nat
      /\ \A z \in Suffixes(start) : Len(z) \in Nat /\ Len(z) <= Len(start)
      /\ \A z \in Suffixes(start) : Len(z) = Len(zone) => z = zone
  BY SuffixIsSeq, SuffixByLength DEF Shape
<1>1. NextSignature => Undecided = {}
  BY DEF NextSignature, Undecided
<1>2. ReturnToSection => Undecided = {}
  <2>1. ReturnToSection => pc = "return" /\ zone = start
    BY DEF ReturnToSection
  <2> QED  BY <1>0, <2>1, SMT DEF Undecided
<1>3. Dnskeys => Undecided' = Undecided
  BY DEF Dnskeys, Undecided, Suffixes
<1>4. ASSUME FetchDnskey
      PROVE  Undecided \subseteq Undecided' /\ (pc' = "call" => zone \in Undecided')
  <2>1. /\ start' = start /\ pc = "call"
        /\ \/ zone' = zone /\ pc' = "return"
           \/ zone # Root /\ zone' = Parent(zone) /\ pc' = "call"
    BY <1>4 DEF FetchDnskey
  <2>2. zone # Root => Len(Parent(zone)) = Len(zone) - 1
    BY <1>0, ParentIsSuffix
  <2> QED  BY <1>0, <2>1, <2>2, SMT DEF Undecided, Suffixes
<1>5. ASSUME ReturnToChild
      PROVE  Undecided \subseteq Undecided' \cup {zone'} /\ (pc' = "ds" => Undecided' = Undecided)
  <2>1. /\ start' = start /\ pc = "return" /\ zone # start /\ zone' = Toward(start, zone)
        /\ pc' \in {"return", "ds"}
    BY <1>5 DEF ReturnToChild
  <2>2. Len(zone') = Len(zone) + 1 /\ zone' \in Suffixes(start)
    BY <1>0, <2>1, TowardIsChild
  <2>3. \A z \in Suffixes(start) : Len(z) = Len(zone') => z = zone'
    BY <1>0, <2>2, SuffixByLength
  <2> QED  BY <1>0, <2>1, <2>2, <2>3, SMTT(60) DEF Undecided, Suffixes
<1>6. ASSUME FetchDs PROVE Undecided \subseteq Undecided' \cup {zone}
  <2>1. UNCHANGED <<start, zone>> /\ pc = "ds" /\ pc' = "return"
    BY <1>6 DEF FetchDs
  <2> QED  BY <1>0, <2>1, SMT DEF Undecided, Suffixes
<1>7. UNCHANGED <<pc, start, zone>> => Undecided' = Undecided
  BY DEF Undecided, Suffixes
<1> QED  BY <1>1, <1>2, <1>3, <1>4, <1>5, <1>6, <1>7

LEMMA MemoStep ==
    ASSUME Shape, [Next]_vars
    PROVE  /\ DOMAIN memo \subseteq DOMAIN memo'
           /\ FetchDnskey \/ FetchDs => zone \in DOMAIN memo'
<1>1. ASSUME NEW z, NEW v, Remember(z, v) PROVE DOMAIN memo' = DOMAIN memo \cup {z}
  BY <1>1 DEF Remember
<1>2. CASE FetchDnskey
  <2>1. \E v : Remember(zone, v)  BY <1>2 DEF FetchDnskey
  <2> QED  BY <1>1, <2>1
<1>3. CASE FetchDs
  <2>1. \E v : Remember(zone, v)  BY <1>3 DEF FetchDs
  <2> QED  BY <1>1, <2>1
<1>4. CASE ReturnToChild
  <2>1. memo' = memo \/ \E z, v : Remember(z, v)  BY <1>4 DEF ReturnToChild
  <2>2. ~FetchDnskey /\ ~FetchDs  BY <1>4 DEF ReturnToChild, FetchDnskey, FetchDs
  <2> QED  BY <1>1, <2>1, <2>2
<1>5. CASE ~FetchDnskey /\ ~FetchDs /\ ~ReturnToChild
  <2>1. memo' = memo
    BY <1>5 DEF Next, Validation, Done, vars, NextSignature, SectionDone, Dnskeys, ReturnToSection, RollKey
  <2> QED  BY <1>5, <2>1
<1> QED  BY <1>2, <1>3, <1>4, <1>5

LEMMA FetchStep ==
    ASSUME FetchInv, [Next]_vars
    PROVE  FetchInv'
<1>0. Shape /\ Shape'  BY StepShape DEF FetchInv
<1>1. CASE FetchDnskey
  <2>1. Undecided' \subseteq Undecided \cup {zone} /\ DOMAIN memo \cup {zone} \subseteq DOMAIN memo'
    BY <1>0, <1>1, StackStep, MemoStep
  <2>2. zone \notin DOMAIN memo /\ Ask(zone, "DNSKEY")  BY <1>1 DEF FetchDnskey, MayFetch
  <2>3. asked' = asked \cup {<<zone, "DNSKEY", FALSE>>}
    <3>1. \A a \in asked : ~(a[1] = zone /\ a[2] = "DNSKEY")  BY <2>2 DEF FetchInv, Noted
    <3> QED  BY <2>2, <3>1, FirstAsk
  <2>4. ASSUME NEW a \in asked' PROVE Noted(a)'
    <3>1. CASE a \in asked  BY <2>1, <2>2, <3>1 DEF FetchInv, Noted
    <3>2. CASE a = <<zone, "DNSKEY", FALSE>>  BY <2>1, <3>2 DEF Noted
    <3> QED  BY <2>3, <3>1, <3>2
  <2>5. Undecided' \subseteq DOMAIN memo'  BY <2>1 DEF FetchInv
  <2> QED  BY <1>0, <2>4, <2>5 DEF FetchInv
<1>2. CASE FetchDs
  <2>1. /\ Undecided' \subseteq Undecided /\ DOMAIN memo \cup {zone} \subseteq DOMAIN memo'
        /\ zone \in Undecided /\ zone \notin Undecided'
    <3>1. ~FetchDnskey  BY <1>2 DEF FetchDs, FetchDnskey
    <3> QED  BY <1>0, <1>2, <3>1, StackStep, MemoStep
  <2>2. Ask(zone, "DS")  BY <1>2 DEF FetchDs
  <2>3. asked' = asked \cup {<<zone, "DS", FALSE>>}
    <3>1. \A a \in asked : ~(a[1] = zone /\ a[2] = "DS")  BY <2>1 DEF FetchInv, Noted
    <3> QED  BY <2>2, <3>1, FirstAsk
  <2>4. ASSUME NEW a \in asked' PROVE Noted(a)'
    <3>1. CASE a \in asked  BY <2>1, <3>1 DEF FetchInv, Noted
    <3>2. CASE a = <<zone, "DS", FALSE>>  BY <2>1, <3>2 DEF Noted
    <3> QED  BY <2>3, <3>1, <3>2
  <2>5. Undecided' \subseteq DOMAIN memo'  BY <2>1 DEF FetchInv
  <2> QED  BY <1>0, <2>4, <2>5 DEF FetchInv
<1>3. CASE ~FetchDnskey /\ ~FetchDs
  <2>1. Undecided' \subseteq Undecided /\ DOMAIN memo \subseteq DOMAIN memo'
    BY <1>0, <1>3, StackStep, MemoStep
  <2>2. asked' = asked
    BY <1>3 DEF Next, Validation, Done, vars, NextSignature, SectionDone, Dnskeys, ReturnToChild,
                ReturnToSection, RollKey
  <2> QED  BY <1>0, <2>1, <2>2 DEF FetchInv, Noted
<1> QED  BY <1>1, <1>2, <1>3

(* One validation fetches the DNSKEY and the DS of a zone at most once:    *)
(* for names of any depth and any number of rrsets and signatures, because *)
(* dnskeys notes a zone in Ctx.keys before it asks the parent.             *)
THEOREM AlwaysFetchedOnce == Spec => []FetchedOnce
<1>1. Init => FetchInv
  <2> SUFFICES ASSUME Init PROVE FetchInv  OBVIOUS
  <2>1. Shape  BY InitShape
  <2>2. Undecided = {}  BY DEF Init, Undecided
  <2> QED  BY <2>1, <2>2 DEF Init, FetchInv
<1>2. FetchInv /\ [Next]_vars => FetchInv'  BY FetchStep
<1>3. FetchInv => FetchedOnce  BY DEF FetchInv, FetchedOnce, Noted
<1> QED  BY <1>1, <1>2, <1>3, PTL DEF Spec

-----------------------------------------------------------------------------
(***************************************************************************)
(* Altered data, in sections whose signatures name zones within the depth  *)
(* limit (with one beyond it, the note that dnskeys leaves in Ctx.keys for *)
(* the zones above is wrong).  A trusted zone is never found insecure.     *)
(***************************************************************************)
Shallow == \A s \in Sections : \A i \in DOMAIN s : \A g \in SigsOf(s[i]) : Len(g.signer) <= MaxDepth

(* The call at hand is for a name of the section, within the depth limit. *)
LEMMA WithinDepth ==
    ASSUME Shape, MaxDepth \in Nat, Shallow, pc \in {"call", "ds", "return"}
    PROVE  /\ start \in Names /\ zone \in Names /\ zone \in Seq(STRING)
           /\ Suffixes(start) \subseteq Names /\ Depth <= MaxDepth
<1>1. /\ start \in Seq(STRING) /\ zone \in Suffixes(start) /\ start \in Names
      /\ idx[1] \in DOMAIN section /\ section \in Sections
      /\ \E g \in SigsOf(section[idx[1]]) : start = g.signer
  BY DEF Shape, AtSignature, SigsOf
<1>2. zone \in Seq(STRING) /\ Len(zone) \in Nat
  BY <1>1, SuffixIsSeq
<1>3. Len(start) <= MaxDepth /\ Len(start) \in Nat
  BY <1>1, SMT DEF Shallow
<1> QED  BY <1>1, <1>2, <1>3, NamesAssumption, SMT DEF Depth

Trusted(z) == Walked(z) /\ Suffixes(z) \cap lost = {}
NotInsecure(z, v) == Trusted(z) => ~v.insecure

(* An rrset with signatures, all of which name trusted zones. *)
Checkable(i) ==
    section[i].sigs # <<>> /\ \A g \in SigsOf(section[i]) : Trusted(g.signer)

CaughtInv ==
    /\ SecureInv
    /\ \A z \in DOMAIN memo \ Undecided : NotInsecure(z, memo[z])
    /\ pc = "return" => NotInsecure(zone, ret)
    /\ \A i \in DOMAIN section : i < idx[1] /\ Checkable(i) => Proven(i)
    /\ verdict \in {"Secure", "Insecure"} => idx[1] > Len(section)

LEMMA NeverUnproven ==
    ASSUME NEW z, z \in world.ds, NEW keys, NEW r \in DsReplies(z)
    PROVE  ~KeysByDs(z, keys, r).insecure
<1>1. r.authority = {}
  <2>1. HonestDs(z).authority = {}  BY DEF HonestDs, DsReply
  <2>2. ASSUME NEW d, NEW s, NEW a, NEW t PROVE DsReply(d, s, a, t).authority = a  BY DEF DsReply
  <2>3. NoDsReply.authority = {}  BY DEF NoDsReply
  <2> QED  BY <2>1, <2>2, <2>3, SMT DEF DsReplies
<1>2. ~AuthoritySignedBy(r, keys)  BY <1>1 DEF AuthoritySignedBy
<1>3. ASSUME NEW k PROVE ~Keys(k).insecure  BY DEF Keys
<1>4. ~Bogus.insecure  BY <1>3 DEF Bogus
<1>5. ASSUME NEW ds, NEW h PROVE ~VouchedKeys(ds, h).insecure  BY <1>3, <1>4 DEF VouchedKeys
<1>6. CASE ~r.ok
  <2>1. KeysByDs(z, keys, r) = Bogus  BY <1>6 DEF KeysByDs
  <2> QED  BY <1>4, <2>1
<1>7. CASE r.ok /\ r.ds = {}
  <2>1. KeysByDs(z, keys, r) = Bogus  BY <1>2, <1>7 DEF KeysByDs
  <2> QED  BY <1>4, <2>1
<1>8. CASE r.ok /\ r.ds # {}
  <2>1. KeysByDs(z, keys, r) = IF \E s \in r.sigs, k \in keys : VerifyRrsig(s, k)
                               THEN VouchedKeys(r.ds, held[z]) ELSE Bogus
    BY <1>8 DEF KeysByDs
  <2> QED  BY <1>4, <1>5, <2>1
<1> QED  BY <1>6, <1>7, <1>8

LEMMA CaughtStep ==
    ASSUME MaxDepth \in Nat, Shallow, CaughtInv, [Next]_vars
    PROVE  CaughtInv'
<1>0. SecureInv /\ SecureInv' /\ Shape /\ Shape'
  BY StepSecure DEF CaughtInv, SecureInv
<1>w. UNCHANGED <<world, section>> /\ lost \subseteq lost'
  BY DEF Next, Validation, Done, vars, NextSignature, SectionDone, Dnskeys, FetchDnskey,
         ReturnToChild, ReturnToSection, FetchDs, RollKey
<1> DEFINE T(z) == Walked(z) /\ Suffixes(z) \cap lost' = {}
           M == \A z \in DOMAIN memo' \ Undecided' : T(z) => ~memo'[z].insecure
           R == pc' = "return" => (T(zone') => ~ret'.insecure)
           C(i) == section[i].sigs # <<>> /\ \A g \in SigsOf(section[i]) : T(g.signer)
           P == \A i \in DOMAIN section : i < idx'[1] /\ C(i) => Proven(i)
           V == verdict' \in {"Secure", "Insecure"} => idx'[1] > Len(section)
<1>u. (\A z : Trusted(z)' <=> T(z)) /\ (\A i : Proven(i)' <=> Proven(i)) /\ (\A i : Checkable(i)' <=> C(i))
  <2>1. (\A z : Trusted(z)' <=> T(z)) /\ (\A i : Proven(i)' <=> Proven(i))
    BY <1>w DEF Trusted, Walked, Suffixes, Proven, SigsOf
  <2> HIDE DEF T
  <2> QED  BY <1>w, <2>1 DEF Checkable, SigsOf
<1>t. (\A z : T(z) => Trusted(z)) /\ (\A i : C(i) => Checkable(i))  BY <1>w DEF Trusted, Checkable
<1>q. SUFFICES M /\ R /\ P /\ V
  <2> HIDE DEF T, C
  <2>1. ASSUME M PROVE (\A z \in DOMAIN memo \ Undecided : NotInsecure(z, memo[z]))'
    BY <1>u, <2>1 DEF NotInsecure
  <2>2. ASSUME R PROVE (pc = "return" => NotInsecure(zone, ret))'
    BY <1>u, <2>2 DEF NotInsecure
  <2>3. ASSUME P PROVE (\A i \in DOMAIN section : i < idx[1] /\ Checkable(i) => Proven(i))'
    BY <1>w, <1>u, <2>3
  <2>4. ASSUME V PROVE (verdict \in {"Secure", "Insecure"} => idx[1] > Len(section))'
    BY <1>w, <2>4
  <2> QED  BY <1>0, <1>u, <2>1, <2>2, <2>3, <2>4 DEF CaughtInv
<1>i. idx[1] \in Nat \ {0} /\ idx[2] \in Nat \ {0}  BY <1>0 DEF Shape
<1> HIDE DEF T, C
<1>p. idx' = idx => P  BY <1>t DEF CaughtInv
<1>v. UNCHANGED <<idx, verdict>> => V  BY DEF CaughtInv
<1>m. ASSUME memo' = memo, Undecided' = Undecided PROVE M
  BY <1>m, <1>t DEF CaughtInv, NotInsecure
<1>z. pc \in {"call", "ds", "return"} => zone \in Seq(STRING) /\ Depth <= MaxDepth
  BY <1>0, WithinDepth
<1>1. CASE NextSignature
  <2>0. UNCHANGED <<memo, ret>> /\ pc = "section" /\ pc' # "return"
    BY <1>1 DEF NextSignature, SectionDone
  <2>1. M
    <3>1. Undecided = {}  BY <1>0, <1>1, StackKept
    <3>2. \A z \in DOMAIN memo : Trusted(z) => ~memo[z].insecure
      BY <3>1 DEF CaughtInv, NotInsecure
    <3> QED  BY <1>t, <2>0, <3>2
  <2>2. R  BY <2>0
  <2>3. CASE idx[1] > Len(section)
    <3>1. idx' = idx  BY <1>1, <2>3 DEF NextSignature, SectionDone
    <3> QED  BY <1>p, <2>1, <2>2, <2>3, <3>1
  <2>4. CASE ~(idx[1] > Len(section)) /\ section[idx[1]].sigs = <<>>
    <3>1. idx' = <<idx[1] + 1, 1>> /\ verdict' = verdict  BY <1>1, <2>4 DEF NextSignature
    <3>2. idx'[1] = idx[1] + 1  BY <3>1
    <3>3. section \in Seq({section[j] : j \in DOMAIN section})
      BY <1>0, SectionsAssumption DEF Shape
    <3>4. idx[1] \in DOMAIN section  BY <1>i, <2>4, <3>3, SMT
    <3>6. ~C(idx[1])  BY <2>4 DEF C
    <3>7. P
      <4> SUFFICES ASSUME NEW i \in DOMAIN section, i < idx[1] + 1, C(i) PROVE Proven(i)
        BY <3>2
      <4>1. i \in Nat /\ i # idx[1]  BY <1>0, <3>6, SectionElement DEF Shape
      <4>2. i < idx[1]  BY <1>i, <4>1, SMT
      <4> QED  BY <1>t, <4>2 DEF CaughtInv
    <3>8. V  BY <1>i, <2>4, <3>1, <3>3 DEF CaughtInv
    <3> QED  BY <2>1, <2>2, <3>7, <3>8
  <2>5. CASE ~(idx[1] > Len(section)) /\ section[idx[1]].sigs # <<>>
    <3>1. idx' = idx /\ verdict' \in {verdict, "Bogus"}
      BY <1>1, <2>5 DEF NextSignature, SectionDone
    <3> QED  BY <1>p, <2>1, <2>2, <3>1 DEF CaughtInv
  <2> QED  BY <2>3, <2>4, <2>5
<1>2. CASE Dnskeys
  <2>1. UNCHANGED <<idx, verdict, memo, zone, start>> /\ pc = "call" /\ pc' = "return"
    BY <1>2 DEF Dnskeys
  <2>2. Undecided' = Undecided  BY <1>0, <1>2, StackKept
  <2>3. zone \notin Undecided  BY <1>0, <1>2, StackStep
  <2>4. zone \in DOMAIN memo /\ ret' = memo[zone]
    <3>1. Len(start) \in Nat /\ Len(zone) \in Nat  BY <1>0, SuffixIsSeq, SMT DEF Shape
    <3>2. ~(Depth > MaxDepth)  BY <1>z, <2>1, <3>1, SMT DEF Depth
    <3> QED  BY <1>2, <3>2 DEF Dnskeys
  <2>5. R  BY <1>t, <2>1, <2>3, <2>4 DEF CaughtInv, NotInsecure
  <2> QED  BY <1>p, <1>v, <1>m, <2>1, <2>2, <2>5
<1>3. CASE FetchDnskey
  <2>1. PICK reply \in KeyReplies(zone) :
           /\ lost' = IF reply.keys = {} THEN lost \cup {zone} ELSE lost
           /\ LET decided == reply.keys = {} \/ AnchorsOf(zone) # {} \/ zone = Root
                  value == CASE reply.keys = {} -> Insecure
                             [] reply.keys # {} /\ AnchorsOf(zone) # {} ->
                                   VouchedKeys({AnchorDs(zone)}, reply)
                             [] OTHER -> Bogus
              IN /\ Remember(zone, IF decided THEN value ELSE Insecure)
                 /\ ret' = IF decided THEN value ELSE ret
                 /\ pc' = IF decided THEN "return" ELSE "call"
                 /\ zone' = IF decided THEN zone ELSE Parent(zone)
    BY <1>3 DEF FetchDnskey
  <2> DEFINE decided == reply.keys = {} \/ AnchorsOf(zone) # {} \/ zone = Root
             value == CASE reply.keys = {} -> Insecure
                        [] reply.keys # {} /\ AnchorsOf(zone) # {} ->
                              VouchedKeys({AnchorDs(zone)}, reply)
                        [] OTHER -> Bogus
  <2>2. UNCHANGED <<idx, verdict, start>> /\ pc = "call"  BY <1>3 DEF FetchDnskey
  <2>3. T(zone) => ~value.insecure
    <3>1. ASSUME NEW k PROVE ~Keys(k).insecure  BY DEF Keys
    <3>2. CASE reply.keys = {}
      <4>1. zone \in lost' /\ zone \in Suffixes(zone)  BY <1>z, <2>1, <2>2, <3>2, SuffixSelf
      <4> QED  BY <4>1 DEF T
    <3>3. CASE reply.keys # {} /\ AnchorsOf(zone) # {}
      <4>1. value = VouchedKeys({AnchorDs(zone)}, reply)  BY <3>3
      <4>2. ASSUME NEW ds PROVE ~VouchedKeys(ds, reply).insecure  BY <3>1 DEF VouchedKeys, Bogus
      <4> QED  BY <4>1, <4>2
    <3>4. CASE reply.keys # {} /\ AnchorsOf(zone) = {}
      <4>1. value = Bogus  BY <3>4
      <4> QED  BY <3>1, <4>1 DEF Bogus
    <3> QED  BY <3>2, <3>3, <3>4
  <2> HIDE DEF decided, value
  <2>4. /\ Remember(zone, IF decided THEN value ELSE Insecure)
        /\ ret' = IF decided THEN value ELSE ret
        /\ pc' = IF decided THEN "return" ELSE "call"
        /\ zone' = IF decided THEN zone ELSE Parent(zone)
    BY <2>1 DEF decided, value
  <2>5. R  BY <2>3, <2>4
  <2>6. /\ DOMAIN memo' = DOMAIN memo \cup {zone}
        /\ memo'[zone] = IF decided THEN value ELSE Insecure
        /\ \A z \in DOMAIN memo : z # zone => memo'[z] = memo[z]
    BY <2>4 DEF Remember
  <2>7. Undecided \subseteq Undecided' /\ (~decided => zone \in Undecided')
    <3>1. Undecided \subseteq Undecided' /\ (pc' = "call" => zone \in Undecided')
      BY <1>0, <1>3, StackKept
    <3> QED  BY <2>4, <3>1
  <2>8. M
    <3> SUFFICES ASSUME NEW z \in DOMAIN memo' \ Undecided', T(z) PROVE ~memo'[z].insecure
      OBVIOUS
    <3>1. CASE z = zone  BY <2>3, <2>6, <2>7, <3>1
    <3>2. CASE z # zone
      <4>1. z \in DOMAIN memo \ Undecided  BY <2>6, <2>7, <3>2
      <4> QED  BY <1>t, <2>6, <3>2, <4>1 DEF CaughtInv, NotInsecure
    <3> QED  BY <3>1, <3>2
  <2> QED  BY <1>p, <1>v, <2>2, <2>5, <2>8
<1>4. CASE ReturnToChild
  <2>1. /\ UNCHANGED <<idx, verdict, ret, start, lost>> /\ pc = "return"
        /\ zone # start /\ zone' = Toward(start, zone)
        /\ \/ Remember(zone', ret) /\ pc' = pc
           \/ pc' = "ds" /\ memo' = memo
    BY <1>4 DEF ReturnToChild
  <2>2. /\ Parent(zone') = zone /\ Len(zone') = Len(zone) + 1
        /\ zone' \in Suffixes(start) /\ zone' # Root
    BY <1>0, <2>1, TowardIsChild DEF Shape
  <2>3. Suffixes(zone) \subseteq Suffixes(zone')
    <3>1. start \in Seq(STRING)  BY <1>0 DEF Shape
    <3> QED  BY <2>2, <3>1, ParentIsSuffix
  <2>4. T(zone') => ~ret.insecure
    <3>1. T(zone') => T(zone)  BY <2>3 DEF T, Walked
    <3> QED  BY <1>t, <2>1, <3>1 DEF CaughtInv, NotInsecure
  <2>5. R  BY <2>1, <2>4
  <2>6. CASE Remember(zone', ret) /\ pc' = pc
    <3>1. /\ DOMAIN memo' = DOMAIN memo \cup {zone'} /\ memo'[zone'] = ret
          /\ \A z \in DOMAIN memo : z # zone' => memo'[z] = memo[z]
      BY <2>6 DEF Remember
    <3>2. Undecided \subseteq Undecided' \cup {zone'}  BY <1>0, <1>4, StackKept
    <3>3. M
      <4> SUFFICES ASSUME NEW z \in DOMAIN memo' \ Undecided', T(z) PROVE ~memo'[z].insecure
        OBVIOUS
      <4>1. CASE z = zone'  BY <2>4, <3>1, <4>1
      <4>2. CASE z # zone'
        <5>1. z \in DOMAIN memo \ Undecided  BY <3>1, <3>2, <4>2
        <5> QED  BY <1>t, <3>1, <4>2, <5>1 DEF CaughtInv, NotInsecure
      <4> QED  BY <4>1, <4>2
    <3> QED  BY <1>p, <1>v, <2>1, <2>5, <3>3
  <2>7. CASE pc' = "ds" /\ memo' = memo
    <3>1. Undecided' = Undecided  BY <1>0, <1>4, <2>7, StackKept
    <3> QED  BY <1>p, <1>v, <1>m, <2>1, <2>5, <2>7, <3>1
  <2> QED  BY <2>1, <2>6, <2>7
<1>5. CASE ReturnToSection
  <2> DEFINE r == section[idx[1]]
             sig == r.sigs[idx[2]]
             good == \E k \in ret.keys : VerifyRrsig(sig.by, k)
  <2>1. /\ UNCHANGED <<memo, ret, verdict, lost>> /\ pc' = "section" /\ pc = "return" /\ zone = start
        /\ idx' = IF ret.insecure \/ good THEN <<idx[1] + 1, 1>> ELSE <<idx[1], idx[2] + 1>>
    BY <1>5 DEF ReturnToSection
  <2>2. idx[1] \in DOMAIN section /\ idx[2] \in DOMAIN r.sigs /\ zone = sig.signer
    BY <1>0, <2>1 DEF Shape, AtSignature
  <2>3. R  BY <2>1
  <2>4. M
    <3>1. Undecided = {}  BY <1>0, <1>5, StackKept
    <3>2. \A z \in DOMAIN memo : Trusted(z) => ~memo[z].insecure
      BY <3>1 DEF CaughtInv, NotInsecure
    <3> QED  BY <1>t, <2>1, <3>2
  <2>5. ASSUME T(zone), ret.insecure \/ good PROVE Proven(idx[1])
    <3>1. good  BY <1>t, <2>1, <2>5 DEF CaughtInv, NotInsecure
    <3>2. sig.by \in ret.keys  BY <3>1 DEF VerifyRrsig
    <3>3. Walked(zone) /\ sig.by \in ZoneKeys(zone)  BY <1>0, <2>1, <3>2 DEF SecureInv, GoodKeys
    <3>4. sig \in Signatures /\ sig \in SigsOf(r)  BY <1>0, <2>2, SectionSignature DEF Shape
    <3>5. sig = Good(sig.signer)
      <4>1. sig.by \in {Zsk(zone), Foreign(zone)}  BY <2>2, <3>4, SignatureNamed
      <4>2. sig.by = Zsk(zone)  BY <3>3, <4>1, KeysDiffer
      <4> QED  BY <2>2, <3>4, <4>2, SignatureNamed
    <3> QED  BY <2>2, <3>3, <3>4, <3>5 DEF Proven
  <2>6. P
    <3> SUFFICES ASSUME NEW i \in DOMAIN section, i < idx'[1], C(i) PROVE Proven(i)
      OBVIOUS
    <3>1. i \in Nat  BY <1>0, SectionElement DEF Shape
    <3>2. CASE i < idx[1]  BY <1>t, <3>2 DEF CaughtInv
    <3>3. CASE ~(i < idx[1])
      <4> HIDE DEF good
      <4>1. i = idx[1] /\ (ret.insecure \/ good)  BY <1>i, <2>1, <3>1, <3>3, SMT
      <4>2. sig \in SigsOf(r)  BY <1>0, <2>2, SectionSignature DEF Shape
      <4>3. T(zone)  BY <2>2, <4>1, <4>2 DEF C
      <4> QED  BY <2>5, <4>1, <4>3
    <3> QED  BY <3>2, <3>3
  <2>7. V
    <3>1. idx'[1] >= idx[1] /\ idx'[1] \in Nat
      <4> HIDE DEF good
      <4> QED  BY <1>i, <2>1, SMT
    <3>2. Len(section) \in Nat
      <4>1. section \in Seq({section[j] : j \in DOMAIN section})  BY <1>0, SectionsAssumption DEF Shape
      <4> QED  BY <4>1, SMT
    <3>3. verdict' \in {"Secure", "Insecure"} => verdict \in {"Secure", "Insecure"}
      <4> HIDE DEF good
      <4> QED  BY <2>1
    <3> QED  BY <1>i, <3>1, <3>2, <3>3, SMT DEF CaughtInv
  <2> QED  BY <2>3, <2>4, <2>6, <2>7
<1>6. CASE FetchDs
  <2>1. PICK reply \in DsReplies(zone) : ret' = KeysByDs(zone, ret.keys, reply)  BY <1>6 DEF FetchDs
  <2>2. /\ UNCHANGED <<idx, verdict, zone, start, lost>> /\ pc = "ds" /\ pc' = "return"
        /\ Remember(zone, ret')
    BY <1>6 DEF FetchDs
  <2>3. T(zone) => ~ret'.insecure
    <3>1. zone # Root /\ zone \in Suffixes(zone)  BY <1>0, <1>z, <2>2, SuffixSelf DEF Shape
    <3>2. T(zone) => zone \in world.ds  BY <3>1 DEF T, Walked
    <3> QED  BY <2>1, <3>2, NeverUnproven
  <2>4. R  BY <2>2, <2>3
  <2>5. /\ DOMAIN memo' = DOMAIN memo \cup {zone} /\ memo'[zone] = ret'
        /\ \A z \in DOMAIN memo : z # zone => memo'[z] = memo[z]
    BY <2>2 DEF Remember
  <2>6. Undecided \subseteq Undecided' \cup {zone}  BY <1>0, <1>6, StackKept
  <2>7. M
    <3> SUFFICES ASSUME NEW z \in DOMAIN memo' \ Undecided', T(z) PROVE ~memo'[z].insecure
      OBVIOUS
    <3>1. CASE z = zone  BY <2>3, <2>5, <3>1
    <3>2. CASE z # zone
      <4>1. z \in DOMAIN memo \ Undecided  BY <2>5, <2>6, <3>2
      <4> QED  BY <1>t, <2>5, <3>2, <4>1 DEF CaughtInv, NotInsecure
    <3> QED  BY <3>1, <3>2
  <2> QED  BY <1>p, <1>v, <2>2, <2>4, <2>7
<1>7. CASE (\E z \in Rolling : RollKey(z)) \/ UNCHANGED vars
  <2>1. UNCHANGED <<idx, verdict, memo, zone, start, pc, ret, lost>>  BY <1>7 DEF RollKey, vars
  <2>2. Undecided' = Undecided  BY <1>0, <2>1, StackKept
  <2>3. R  BY <1>t, <2>1 DEF CaughtInv, NotInsecure
  <2> QED  BY <1>p, <1>v, <1>m, <2>1, <2>2, <2>3
<1> QED  BY <1>1, <1>2, <1>3, <1>4, <1>5, <1>6, <1>7 DEF Next, Validation, Done

(* An rrset that has signatures, none of them good, makes the section      *)
(* Bogus if the zones they name have chains of trust label by label,       *)
(* unless the DNSKEY fetch of such a zone or of one above it came back     *)
(* without keys: for every depth limit, if all the zones that signatures   *)
(* name are within it.                                                     *)
THEOREM AlwaysCaught ==
    ASSUME MaxDepth \in Nat, Shallow
    PROVE  Spec => []AlteredCaught
<1>1. Init => CaughtInv
  <2> SUFFICES ASSUME Init PROVE CaughtInv  OBVIOUS
  <2>1. SecureInv /\ Shape  BY InitSecure DEF SecureInv
  <2>2. DOMAIN memo = {} /\ pc = "section" /\ verdict = "none" /\ idx[1] = 1
    BY SMT DEF Init
  <2>3. \A i \in DOMAIN section : ~(i < 1)  BY <2>1, SectionElement, SMT DEF Shape
  <2> QED  BY <2>1, <2>2, <2>3 DEF CaughtInv
<1>2. CaughtInv /\ [Next]_vars => CaughtInv'  BY CaughtStep
<1>3. CaughtInv => AlteredCaught
  <2> SUFFICES ASSUME CaughtInv, NEW i \in DOMAIN section, verdict \in {"Secure", "Insecure"},
                      section[i].sigs # <<>>,
                      \A g \in SigsOf(section[i]) : g = Bad(g.signer) /\ Followed(g.signer),
                      \A g \in SigsOf(section[i]) : Suffixes(g.signer) \cap lost = {}
               PROVE  FALSE
    BY DEF AlteredCaught
  <2>1. i \in Nat /\ i <= Len(section) /\ Len(section) \in Nat /\ idx[1] \in Nat
    <3>1. section \in Sections /\ idx[1] \in Nat  BY DEF CaughtInv, SecureInv, Shape
    <3>2. section \in Seq({section[j] : j \in DOMAIN section})  BY <3>1, SectionsAssumption
    <3> QED  BY <3>1, <3>2, SectionElement, SMT
  <2>2. i < idx[1]  BY <2>1, SMT DEF CaughtInv
  <2>3. section \in Sections /\ world \in Worlds  BY DEF CaughtInv, SecureInv, Shape
  <2>4. ASSUME NEW g \in SigsOf(section[i]) PROVE Trusted(g.signer) /\ g # Good(g.signer)
    <3>1. g \in Signatures  BY <2>3, SectionSignature DEF SigsOf
    <3>2. g.signer \in Seq(STRING)  BY <3>1, SignatureNamed, NamesAssumption
    <3>3. Trusted(g.signer)  BY <2>3, <3>2, WalkedIsChained DEF Followed, Trusted
    <3>4. Good(g.signer) # Bad(g.signer)  BY DEF Good, Bad, Signature, Zsk, Foreign
    <3> QED  BY <3>3, <3>4
  <2>5. Proven(i)  BY <2>2, <2>4 DEF CaughtInv, Checkable
  <2> QED  BY <2>4, <2>5 DEF Proven
<1> QED  BY <1>1, <1>2, <1>3, PTL DEF Spec

-----------------------------------------------------------------------------
(***************************************************************************)
(* Honest replies.  The hypotheses under which a validation is exact: the  *)
(* zones its signatures name are within the depth limit, the root has an anchor   *)
(* and keeps its key, and no key is rolled twice while a validation runs.  *)
(***************************************************************************)
Orderly ==
    /\ MaxDepth \in Nat /\ Shallow
    /\ AnchorsOf(Root) # {} /\ AnchorDs(Root) = Ksk(Root, 0) /\ Root \notin Rolling
    /\ MaxRolls \in {0, 1}

(* What dnskeys finds out about a zone is right. *)
Exact(z, v) == IF Walked(z) THEN ~v.insecure /\ Zsk(z) \in v.keys ELSE v.insecure

(* The DS that the parent has now vouches for the keys of the reply. *)
Vouchable(z, r) == Zsk(z) \in r.keys /\ Ksk(z, DsGeneration(z)) \in r.keys \cap r.sigs

(***************************************************************************)
(* As long as no reply was bad, what is decided is right, and a zone that  *)
(* waits for its parent holds keys that the DS will vouch for, even if the *)
(* zone takes a step of its rollover in between.                           *)
(***************************************************************************)
Waiting(z) ==
    /\ z \in world.signed /\ Vouchable(z, held[z])
    /\ rolls = 0 => held[z] = HonestKeys(z)

ExactInv ==
    /\ SecureInv
    /\ faults \in Nat /\ rolls \in Nat
    /\ roll \in [Names -> 0..3] /\ (Root \in Names => roll[Root] = 0)
    /\ faults = 0 =>
          /\ \A z \in DOMAIN memo \ Undecided : Exact(z, memo[z])
          /\ \A z \in Undecided : Waiting(z)
          /\ pc = "return" => Exact(zone, ret)
          /\ pc = "ds" => Walked(Parent(zone)) /\ Zsk(Parent(zone)) \in ret.keys

LEMMA VouchedRecord ==
    ASSUME NEW k
    PROVE  /\ Keys(k).keys = k /\ ~Keys(k).insecure
           /\ Insecure.keys = {} /\ Insecure.insecure
  BY DEF Keys, Insecure

LEMMA ReplyRecord ==
    ASSUME NEW k, NEW s
    PROVE  Reply(k, s).keys = k /\ Reply(k, s).sigs = s
  BY DEF Reply

(* The keys of a signed zone, at each step of a rollover. *)
LEMMA HonestVouchable ==
    ASSUME NEW z, z \in world.signed, roll[z] \in 0..3
    PROVE  Vouchable(z, HonestKeys(z))
<1>1. HonestKeys(z).keys = Ksks(z) \cup {Zsk(z)} /\ HonestKeys(z).sigs = Ksks(z)
  BY ReplyRecord DEF HonestKeys
<1>2. Ksk(z, DsGeneration(z)) \in Ksks(z)
  <2>1. CASE roll[z] = 0
    BY <2>1, SMT DEF DsGeneration, Ksks
  <2>2. CASE roll[z] = 1
    <3>1. DsGeneration(z) = 0  BY <2>2, SMT DEF DsGeneration
    <3>2. Ksks(z) = {Ksk(z, 0), Ksk(z, 1)}  BY <2>2 DEF Ksks
    <3> QED  BY <3>1, <3>2
  <2>3. CASE roll[z] = 2
    <3>1. DsGeneration(z) = 1  BY <2>3, SMT DEF DsGeneration
    <3>2. Ksks(z) = {Ksk(z, 0), Ksk(z, 1)}  BY <2>3, SMT DEF Ksks
    <3> QED  BY <3>1, <3>2
  <2>4. CASE roll[z] = 3
    <3>1. DsGeneration(z) = 1  BY <2>4, SMT DEF DsGeneration
    <3>2. Ksks(z) = {Ksk(z, 1)}  BY <2>4, SMT DEF Ksks
    <3> QED  BY <3>1, <3>2
  <2> QED  BY <2>1, <2>2, <2>3, <2>4, SMT
<1> QED  BY <1>1, <1>2 DEF Vouchable

(* ... and after the next step, which adds a key, changes the DS or drops  *)
(* the key that the DS is not for.                                         *)
LEMMA StillVouchable ==
    ASSUME NEW z, z \in world.signed, roll[z] \in 0..2, roll'[z] = roll[z] + 1,
           NEW r, r = HonestKeys(z)
    PROVE  Zsk(z) \in r.keys /\ Ksk(z, DsGeneration(z)') \in r.keys \cap r.sigs
<1>1. r.keys = Ksks(z) \cup {Zsk(z)} /\ r.sigs = Ksks(z)
  BY ReplyRecord DEF HonestKeys
<1>2. Ksk(z, DsGeneration(z)') \in Ksks(z)
  <2>1. CASE roll[z] = 0
    <3>1. DsGeneration(z)' = 0  BY <2>1, SMT DEF DsGeneration
    <3>2. Ksks(z) = {Ksk(z, 0)}  BY <2>1, SMT DEF Ksks
    <3> QED  BY <3>1, <3>2
  <2>2. CASE roll[z] \in {1, 2}
    <3>1. DsGeneration(z)' \in {0, 1}  BY DEF DsGeneration
    <3>2. Ksks(z) = {Ksk(z, 0), Ksk(z, 1)}  BY <2>2, SMT DEF Ksks
    <3> QED  BY <3>1, <3>2
  <2> QED  BY <2>1, <2>2, SMT
<1> QED  BY <1>1, <1>2

(* A set of keys that a DS vouches for is taken. *)
LEMMA VouchableTaken ==
    ASSUME NEW z, NEW r, Vouchable(z, r)
    PROVE  VouchedKeys({Ksk(z, DsGeneration(z))}, r) = Keys(r.keys)
  BY DEF Vouchable, VouchedKeys, VerifyDs, VerifyRrsig

(* Right below a zone, the cut is that zone. *)
LEMMA CutIsParent ==
    ASSUME NEW z \in Seq(STRING), z # Root, Parent(z) \in world.zones
    PROVE  Cut(z) = Parent(z)
<1> DEFINE p == Parent(z)
           S == Suffixes(p) \cap world.zones
<1>1. p \in Seq(STRING)
  <2>1. p \in Suffixes(z)  BY SuffixSelf, ParentIsSuffix
  <2> QED  BY <2>1, SuffixIsSeq
<1>2. p \in S /\ \A t \in S : Len(t) \in Nat /\ Len(t) <= Len(p)
  BY <1>1, SuffixSelf, SuffixIsSeq
<1>3. PICK s \in S : s = Cut(z) /\ \A t \in S : Len(t) <= Len(s)
  BY <1>2 DEF Cut
<1>4. Len(s) = Len(p)  BY <1>2, <1>3, SMT
<1> QED  BY <1>1, <1>2, <1>3, <1>4, SuffixByLength

(* The anchored root. *)
LEMMA RootExact ==
    ASSUME Orderly, world \in Worlds, roll[Root] = 0
    PROVE  /\ Exact(Root, VouchedKeys({AnchorDs(Root)}, HonestKeys(Root)))
           /\ HonestKeys(Root).keys # {}
<1>1. Root \in world.signed /\ AnchorDs(Root) = Ksk(Root, 0)
  BY WorldsAssumption DEF Orderly
<1>2. DsGeneration(Root) = 0 /\ roll[Root] \in 0..3
  BY SMT DEF DsGeneration
<1>3. Vouchable(Root, HonestKeys(Root))
  BY <1>1, <1>2, HonestVouchable
<1>4. VouchedKeys({AnchorDs(Root)}, HonestKeys(Root)) = Keys(HonestKeys(Root).keys)
  BY <1>1, <1>2, <1>3, VouchableTaken
<1>5. Walked(Root)
  BY <1>1, RootAlone DEF Walked
<1> QED  BY <1>3, <1>4, <1>5, VouchedRecord DEF Exact, Vouchable

(* No other zone has an anchor. *)
LEMMA OnlyRootAnchored ==
    ASSUME NEW z, AnchorsOf(z) # {}
    PROVE  z = Root
<1>1. PICK i \in DOMAIN Anchors : Anchors[i].zone = z
  BY DEF AnchorsOf
<1>2. Anchors[i] \in [zone : {Root}, key : {Ksk(Root, 0), Ksk(Root, 1)}]
  BY WorldsAssumption, Element, ZenonT(60)
<1> QED  BY <1>1, <1>2

(* The denial of a DS that a server of the parent sends proves it. *)
LEMMA DenialProves ==
    ASSUME NEW z \in Names, Cut(z) \in Names
    PROVE  AuthenticatedNoDs(z, {Denial(z)})
<1>1. CASE world.denial = "nsec"
  <2>1. Denial(z) = [type |-> "NSEC", owner |-> z, types |-> {"NS", "RRSIG", "NSEC"}]
    BY <1>1 DEF Denial
  <2>2. /\ Denial(z).type = "NSEC" /\ Denial(z).owner = z
        /\ Denial(z).types = {"NS", "RRSIG", "NSEC"}
    BY <2>1, SMT
  <2> QED  BY <2>2 DEF AuthenticatedNoDs
<1>2. CASE world.denial = "nsec3"
  <2>1. Denial(z) = [type |-> "NSEC3", owner |-> Hash[z], next |-> Hash[Root],
                     types |-> {"NS"}, optOut |-> FALSE]
    BY <1>2 DEF Denial
  <2>2. Denial(z).type # "NSEC" /\ Denial(z).owner = Hash[z] /\ Denial(z).types = {"NS"}
    BY <2>1, SMT
  <2> QED  BY <2>2 DEF AuthenticatedNoDs
<1>3. CASE world.denial # "nsec" /\ world.denial # "nsec3"
  <2>1. Denial(z) = [type |-> "NSEC3", owner |-> Hash[Cut(z)], next |-> Hash[Cut(z)],
                     types |-> {"NS", "SOA", "RRSIG", "DNSKEY"}, optOut |-> TRUE]
    BY <1>3 DEF Denial
  <2>2. /\ Denial(z).type # "NSEC" /\ Denial(z).optOut
        /\ Denial(z).owner = Hash[Cut(z)] /\ Denial(z).next = Hash[Cut(z)]
    BY <2>1, SMT
  <2>3. Hash[z] \in Nat /\ Hash[Cut(z)] \in Nat
    BY WorldsAssumption
  <2>4. OptOutCovers(Denial(z), Hash[z])
    BY <2>2, <2>3, SMT DEF OptOutCovers
  <2> QED  BY <2>2, <2>4 DEF AuthenticatedNoDs
<1> QED  BY <1>1, <1>2, <1>3

(* delegated_ds below a zone with a chain of trust. *)
LEMMA DsExact ==
    ASSUME world \in Worlds, NEW z \in Names, z # Root, Walked(Parent(z)),
           NEW keys, Zsk(Parent(z)) \in keys,
           z \in world.signed, Vouchable(z, held[z])
    PROVE  Exact(z, KeysByDs(z, keys, HonestDs(z)))
<1> DEFINE p == Parent(z)
<1>1. z \in Seq(STRING)
  BY NamesAssumption
<1>2. p \in Suffixes(z) /\ Suffixes(z) = {z} \cup Suffixes(p)
  BY <1>1, SuffixSelf, ParentIsSuffix
<1>3. p \in Names /\ p \in Suffixes(p)
  BY <1>2, NamesAssumption, SuffixSelf
<1>4. p \in world.signed /\ p \in world.zones
  BY <1>3, WorldsAssumption DEF Walked
<1>5. Cut(z) = p
  BY <1>1, <1>4, CutIsParent
<1>6. Signers(Cut(z)) = {Zsk(p)}
  BY <1>4, <1>5 DEF Signers
<1>7. Walked(z) <=> z \in world.ds
  <2>1. \A s \in Suffixes(p) : s \in world.signed /\ (s = Root \/ s \in world.ds)
    BY DEF Walked
  <2> QED  BY <1>2, <2>1 DEF Walked
<1> HIDE DEF p
<1>8. CASE z \in world.ds
  <2> DEFINE ds == {Ksk(z, DsGeneration(z))}
             r == DsReply(ds, {Zsk(p)}, {}, {})
  <2>1. HonestDs(z) = r
    BY <1>6, <1>8 DEF HonestDs
  <2>2. r.ok /\ r.ds = ds /\ r.sigs = {Zsk(p)} /\ r.ds # {}
    BY DEF DsReply
  <2>3. \E s \in r.sigs, k \in keys : VerifyRrsig(s, k)
    BY <2>2 DEF VerifyRrsig, p
  <2> HIDE DEF r
  <2>4. KeysByDs(z, keys, r) = VouchedKeys(ds, held[z])
    BY <2>2, <2>3 DEF KeysByDs
  <2>5. VouchedKeys(ds, held[z]) = Keys(held[z].keys)
    BY VouchableTaken
  <2> QED  BY <1>7, <1>8, <2>1, <2>4, <2>5, VouchedRecord DEF Exact, Vouchable
<1>9. CASE z \notin world.ds
  <2> DEFINE r == DsReply({}, {}, {Denial(z)}, {Zsk(p)})
  <2>1. HonestDs(z) = r
    BY <1>6, <1>9 DEF HonestDs
  <2>2. r.ok /\ r.ds = {} /\ r.authority = {Denial(z)} /\ r.authSigs = {Zsk(p)}
    BY DEF DsReply
  <2> HIDE DEF r
  <2>3. AuthoritySignedBy(r, keys)
    BY <2>2 DEF AuthoritySignedBy, VerifyRrsig, p
  <2>4. AuthenticatedNoDs(z, r.authority)
    BY <1>3, <1>5, <2>2, DenialProves DEF p
  <2>5. KeysByDs(z, keys, r) = Insecure
    BY <2>2, <2>3, <2>4 DEF KeysByDs
  <2> QED  BY <1>7, <1>9, <2>1, <2>5, VouchedRecord DEF Exact
<1> QED  BY <1>8, <1>9

(* The counters of disturbances, and the rollovers. *)
LEMMA RollStep ==
    ASSUME Orderly, faults \in Nat, rolls \in Nat, roll \in [Names -> 0..3],
           Root \in Names => roll[Root] = 0, [Next]_vars
    PROVE  /\ faults' \in Nat /\ (faults' = 0 => faults = 0)
           /\ rolls' \in Nat /\ roll' \in [Names -> 0..3] /\ (Root \in Names => roll'[Root] = 0)
           /\ UNCHANGED <<world, section>>
           /\ Validation => UNCHANGED <<roll, rolls>>
<1>1. CASE Validation
  <2>1. UNCHANGED <<world, section, roll, rolls>>
    BY <1>1 DEF Validation, NextSignature, SectionDone, Dnskeys, FetchDnskey, ReturnToChild,
           ReturnToSection, FetchDs
  <2>2. faults' \in {faults, faults + 1}
    BY <1>1 DEF Validation, NextSignature, SectionDone, Dnskeys, FetchDnskey, ReturnToChild,
           ReturnToSection, FetchDs, Fault
  <2> QED  BY <2>1, <2>2, SMT
<1>2. ASSUME NEW z \in Rolling, RollKey(z), ~Validation PROVE /\ faults' \in Nat /\ (faults' = 0 => faults = 0)
           /\ rolls' \in Nat /\ roll' \in [Names -> 0..3] /\ (Root \in Names => roll'[Root] = 0)
           /\ UNCHANGED <<world, section>>
  <2>1. /\ roll' = [roll EXCEPT ![z] = @ + 1] /\ rolls' = rolls + 1 /\ roll[z] < 3
        /\ UNCHANGED <<world, section, faults>> /\ z # Root
    BY <1>2 DEF RollKey, Orderly
  <2>2. rolls' \in Nat
    BY <2>1, SMT
  <2>3. roll' \in [Names -> 0..3] /\ (Root \in Names => roll'[Root] = 0)
    <3>1. z \in Names => roll[z] + 1 \in 0..3
      BY <2>1, SMT
    <3> QED  BY <2>1, <3>1
  <2> QED  BY <2>1, <2>2, <2>3
<1>3. CASE UNCHANGED vars
  BY <1>3 DEF vars
<1> QED  BY <1>1, <1>2, <1>3 DEF Next, Done

LEMMA ExactStep ==
    ASSUME Orderly, ExactInv, [Next]_vars
    PROVE  ExactInv'
<1>0. SecureInv /\ SecureInv' /\ Shape /\ Shape'
  BY StepSecure DEF ExactInv, SecureInv
<1>w. /\ faults' \in Nat /\ (faults' = 0 => faults = 0)
      /\ rolls' \in Nat /\ roll' \in [Names -> 0..3] /\ (Root \in Names => roll'[Root] = 0)
      /\ UNCHANGED <<world, section>>
      /\ Validation => UNCHANGED <<roll, rolls>>
  BY RollStep DEF ExactInv
<1> DEFINE M == \A z \in DOMAIN memo' \ Undecided' : Exact(z, memo'[z])
           W == \A z \in Undecided' : Waiting(z)'
           R == pc' = "return" => Exact(zone', ret')
           D == pc' = "ds" => Walked(Parent(zone')) /\ Zsk(Parent(zone')) \in ret'.keys
<1>q. SUFFICES ASSUME faults' = 0 PROVE M /\ W /\ R /\ D
  <2>1. \A z : Walked(z)' <=> Walked(z)
    BY <1>w DEF Walked
  <2>2. M => (\A z \in DOMAIN memo \ Undecided : Exact(z, memo[z]))'
    BY <2>1 DEF Exact
  <2>3. R => (pc = "return" => Exact(zone, ret))'
    BY <2>1 DEF Exact
  <2>4. D => (pc = "ds" => Walked(Parent(zone)) /\ Zsk(Parent(zone)) \in ret.keys)'
    BY <2>1
  <2> QED  BY <1>0, <1>w, <2>2, <2>3, <2>4 DEF ExactInv
<1>e. /\ \A z \in DOMAIN memo \ Undecided : Exact(z, memo[z])
      /\ \A z \in Undecided : Waiting(z)
      /\ pc = "return" => Exact(zone, ret)
      /\ pc = "ds" => Walked(Parent(zone)) /\ Zsk(Parent(zone)) \in ret.keys
      /\ faults \in Nat /\ faults = 0 /\ rolls \in Nat
      /\ roll \in [Names -> 0..3] /\ (Root \in Names => roll[Root] = 0)
  BY <1>w, <1>q DEF ExactInv
<1>d. /\ Shallow /\ MaxDepth \in Nat
      /\ pc \in {"call", "ds", "return"} =>
            /\ start \in Names /\ zone \in Names /\ zone \in Seq(STRING)
            /\ Suffixes(start) \subseteq Names /\ Depth <= MaxDepth
  BY <1>0, WithinDepth DEF Orderly
<1>m. ASSUME memo' = memo, Undecided' = Undecided PROVE M
  BY <1>e, <1>m
<1>k. ASSUME UNCHANGED <<roll, rolls>>, NEW z, Waiting(z), held'[z] = held[z] PROVE Waiting(z)'
  BY <1>w, <1>k DEF Waiting, Vouchable, DsGeneration, HonestKeys, Ksks
<1>1. CASE NextSignature \/ ReturnToSection
  <2>1. UNCHANGED memo /\ pc' \notin {"return", "ds"}
    BY <1>1 DEF NextSignature, SectionDone, ReturnToSection
  <2>2. Undecided = {} /\ Undecided' = {}
    <3>1. Undecided = {}
      BY <1>0, <1>1, StackKept
    <3>2. ~FetchDnskey
      BY <1>1 DEF NextSignature, ReturnToSection, FetchDnskey
    <3> QED  BY <1>0, <3>1, <3>2, StackStep
  <2> QED  BY <1>m, <2>1, <2>2
<1>2. CASE Dnskeys
  <2>1. UNCHANGED <<memo, held, zone>> /\ pc = "call" /\ pc' = "return" /\ Validation
    BY <1>2 DEF Dnskeys, Validation
  <2>2. Undecided' = Undecided /\ zone \notin Undecided
    BY <1>0, <1>2, StackKept, StackStep
  <2>3. zone \in DOMAIN memo /\ ret' = memo[zone]
    <3>1. Len(start) \in Nat /\ Len(zone) \in Nat
      BY <1>0, SuffixIsSeq, SMT DEF Shape
    <3>2. ~(Depth > MaxDepth)
      BY <1>d, <2>1, <3>1, SMT DEF Depth
    <3> QED  BY <1>2, <3>2 DEF Dnskeys
  <2>4. R
    BY <1>e, <2>1, <2>2, <2>3
  <2>5. W
    BY <1>e, <1>w, <1>k, <2>1, <2>2
  <2> QED  BY <1>m, <2>1, <2>2, <2>4, <2>5
<1>3. CASE FetchDnskey
  <2>0. Validation /\ pc = "call"
    BY <1>3 DEF Validation, FetchDnskey
  <2>1. PICK reply \in KeyReplies(zone) :
           /\ Fault(reply # HonestKeys(zone))
           /\ held' = [held EXCEPT ![zone] = reply]
           /\ LET decided == reply.keys = {} \/ AnchorsOf(zone) # {} \/ zone = Root
                  value == CASE reply.keys = {} -> Insecure
                             [] reply.keys # {} /\ AnchorsOf(zone) # {} ->
                                   VouchedKeys({AnchorDs(zone)}, reply)
                             [] OTHER -> Bogus
              IN /\ Remember(zone, IF decided THEN value ELSE Insecure)
                 /\ ret' = IF decided THEN value ELSE ret
                 /\ pc' = IF decided THEN "return" ELSE "call"
                 /\ zone' = IF decided THEN zone ELSE Parent(zone)
    BY <1>3 DEF FetchDnskey
  <2> DEFINE decided == reply.keys = {} \/ AnchorsOf(zone) # {} \/ zone = Root
             value == CASE reply.keys = {} -> Insecure
                        [] reply.keys # {} /\ AnchorsOf(zone) # {} ->
                              VouchedKeys({AnchorDs(zone)}, reply)
                        [] OTHER -> Bogus
  <2>2. reply = HonestKeys(zone)
    <3>1. faults + 1 # 0
      BY <1>e, SMT
    <3> QED  BY <1>e, <1>q, <2>1, <3>1 DEF Fault
  <2>3. /\ decided => Exact(zone, value)
        /\ ~decided => zone \in world.signed
    <3>1. CASE zone \notin world.signed
      <4>1. reply.keys = {}
        BY <2>2, <3>1, ReplyRecord DEF HonestKeys
      <4>2. value = Insecure
        BY <4>1
      <4>3. ~Walked(zone)
        BY <1>d, <2>0, <3>1, SuffixSelf DEF Walked
      <4> QED  BY <4>1, <4>2, <4>3, VouchedRecord DEF Exact
    <3>2. CASE zone = Root
      <4>1. Exact(Root, VouchedKeys({AnchorDs(Root)}, reply)) /\ reply.keys # {}
        BY <1>0, <1>d, <1>e, <2>0, <2>2, <3>2, RootExact DEF Shape
      <4>2. AnchorsOf(zone) # {}
        BY <3>2 DEF Orderly
      <4>3. value = VouchedKeys({AnchorDs(zone)}, reply)
        BY <4>1, <4>2
      <4> QED  BY <3>2, <4>1, <4>3
    <3>3. CASE zone \in world.signed /\ zone # Root
      <4>1. AnchorsOf(zone) = {}
        BY <3>3, OnlyRootAnchored
      <4>2. reply.keys # {}
        BY <1>d, <1>e, <2>0, <2>2, <3>3, HonestVouchable DEF Vouchable
      <4> QED  BY <3>3, <4>1, <4>2
    <3> QED  BY <3>1, <3>2, <3>3
  <2> HIDE DEF decided, value
  <2>4. /\ Remember(zone, IF decided THEN value ELSE Insecure)
        /\ ret' = IF decided THEN value ELSE ret
        /\ pc' = IF decided THEN "return" ELSE "call"
        /\ zone' = IF decided THEN zone ELSE Parent(zone)
    BY <2>1 DEF decided, value
  <2>5. R /\ D
    BY <2>3, <2>4
  <2>6. /\ DOMAIN memo' = DOMAIN memo \cup {zone}
        /\ memo'[zone] = IF decided THEN value ELSE Insecure
        /\ \A z \in DOMAIN memo : z # zone => memo'[z] = memo[z]
    BY <2>4 DEF Remember
  <2>7. /\ Undecided \subseteq Undecided' /\ (~decided => zone \in Undecided')
        /\ Undecided' \subseteq Undecided \cup {zone} /\ (decided => zone \notin Undecided')
    <3>1. /\ Undecided \subseteq Undecided' /\ (pc' = "call" => zone \in Undecided')
          /\ Undecided' \subseteq Undecided \cup {zone} /\ (pc' = "return" => zone \notin Undecided')
      BY <1>0, <1>3, StackKept, StackStep
    <3> QED  BY <2>4, <3>1
  <2>8. M
    <3> SUFFICES ASSUME NEW z \in DOMAIN memo' \ Undecided' PROVE Exact(z, memo'[z])
      OBVIOUS
    <3>1. CASE z = zone
      BY <2>3, <2>6, <2>7, <3>1
    <3>2. CASE z # zone
      BY <1>e, <2>6, <2>7, <3>2
    <3> QED  BY <3>1, <3>2
  <2>9. W
    <3> SUFFICES ASSUME NEW z \in Undecided' PROVE Waiting(z)'
      OBVIOUS
    <3>1. CASE z = zone
      <4>1. z \in world.signed /\ held'[z] = HonestKeys(z)
        BY <1>0, <1>d, <2>0, <2>1, <2>2, <2>3, <2>7, <3>1 DEF Shape
      <4>2. Vouchable(z, HonestKeys(z))
        BY <1>d, <1>e, <2>0, <3>1, <4>1, HonestVouchable
      <4>3. DsGeneration(z)' = DsGeneration(z) /\ HonestKeys(z)' = HonestKeys(z)
        <5>1. UNCHANGED <<roll, world>>
          BY <1>w, <2>0
        <5>2. DsGeneration(z)' = DsGeneration(z) /\ Ksks(z)' = Ksks(z)
          BY <5>1 DEF DsGeneration, Ksks
        <5> QED  BY <5>1, <5>2 DEF HonestKeys
      <4> QED  BY <1>w, <4>1, <4>2, <4>3 DEF Waiting, Vouchable
    <3>2. CASE z # zone
      <4>1. z \in Undecided /\ z \in Names
        BY <1>d, <2>0, <2>7, <3>2 DEF Undecided
      <4>2. held'[z] = held[z]
        BY <1>0, <2>1, <3>2, <4>1 DEF Shape
      <4> QED  BY <1>e, <1>k, <1>w, <2>0, <4>1, <4>2
    <3> QED  BY <3>1, <3>2
  <2> QED  BY <2>5, <2>8, <2>9
<1>4. CASE ReturnToChild
  <2>1. /\ UNCHANGED <<held, ret, start>> /\ pc = "return" /\ Validation
        /\ zone # start /\ zone' = Toward(start, zone)
        /\ \/ ret.keys = {} /\ Remember(zone', ret) /\ pc' = pc
           \/ ret.keys # {} /\ pc' = "ds" /\ memo' = memo
    BY <1>4 DEF ReturnToChild, Validation
  <2>2. Parent(zone') = zone /\ zone' # Root /\ zone' \in Suffixes(start)
    BY <1>0, <2>1, TowardIsChild DEF Shape
  <2>3. W
    <3>1. ~FetchDnskey
      BY <2>1 DEF FetchDnskey
    <3>2. Undecided' \subseteq Undecided
      BY <1>0, <3>1, StackStep
    <3> QED  BY <1>e, <1>k, <1>w, <2>1, <3>2
  <2>4. CASE ret.keys = {} /\ Remember(zone', ret) /\ pc' = pc
    <3>1. ~Walked(zone) /\ ret.insecure
      BY <1>e, <2>1, <2>4 DEF Exact
    <3>2. Suffixes(zone) \subseteq Suffixes(zone')
      <4>1. start \in Seq(STRING)
        BY <1>0 DEF Shape
      <4> QED  BY <2>2, <4>1, ParentIsSuffix
    <3>3. Exact(zone', ret)
      BY <3>1, <3>2 DEF Exact, Walked
    <3>4. /\ DOMAIN memo' = DOMAIN memo \cup {zone'} /\ memo'[zone'] = ret
          /\ \A z \in DOMAIN memo : z # zone' => memo'[z] = memo[z]
      BY <2>4 DEF Remember
    <3>5. Undecided \subseteq Undecided' \cup {zone'}
      BY <1>0, <1>4, StackKept
    <3>6. M
      BY <1>e, <3>3, <3>4, <3>5
    <3> QED  BY <2>1, <2>3, <2>4, <3>3, <3>6
  <2>5. CASE ret.keys # {} /\ pc' = "ds" /\ memo' = memo
    <3>1. Walked(zone) /\ Zsk(zone) \in ret.keys
      BY <1>0, <1>e, <2>1, <2>5 DEF SecureInv, GoodKeys, Exact
    <3>2. Undecided' = Undecided
      BY <1>0, <1>4, <2>5, StackKept
    <3> QED  BY <1>m, <2>1, <2>2, <2>3, <2>5, <3>1, <3>2
  <2> QED  BY <2>1, <2>4, <2>5
<1>6. CASE FetchDs
  <2>1. PICK reply \in DsReplies(zone) :
           Fault(reply # HonestDs(zone)) /\ ret' = KeysByDs(zone, ret.keys, reply)
    BY <1>6 DEF FetchDs
  <2>2. /\ UNCHANGED <<zone, start, held>> /\ pc = "ds" /\ pc' = "return" /\ Validation
        /\ Remember(zone, ret')
    BY <1>6 DEF FetchDs, Validation
  <2>3. reply = HonestDs(zone)
    <3>1. faults + 1 # 0
      BY <1>e, SMT
    <3> QED  BY <1>e, <1>q, <2>1, <3>1 DEF Fault
  <2>4. /\ Undecided' \subseteq Undecided /\ zone \in Undecided
        /\ Undecided \subseteq Undecided' \cup {zone}
    <3>1. ~FetchDnskey
      BY <2>2 DEF FetchDnskey
    <3> QED  BY <1>0, <1>6, <3>1, StackStep, StackKept
  <2>5. Exact(zone, ret')
    <3>1. zone \in Names /\ zone # Root /\ world \in Worlds
      BY <1>0, <1>d, <2>2 DEF Shape
    <3>2. zone \in world.signed /\ Vouchable(zone, held[zone])
      BY <1>e, <2>4 DEF Waiting
    <3>3. Walked(Parent(zone)) /\ Zsk(Parent(zone)) \in ret.keys
      BY <1>e, <2>2
    <3> QED  BY <2>1, <2>3, <3>1, <3>2, <3>3, DsExact
  <2>6. /\ DOMAIN memo' = DOMAIN memo \cup {zone} /\ memo'[zone] = ret'
        /\ \A z \in DOMAIN memo : z # zone => memo'[z] = memo[z]
    BY <2>2 DEF Remember
  <2>7. M
    BY <1>e, <2>4, <2>5, <2>6
  <2>8. W
    BY <1>e, <1>k, <1>w, <2>2, <2>4
  <2> QED  BY <2>2, <2>5, <2>7, <2>8
<1>7. ASSUME NEW y \in Rolling, RollKey(y) PROVE M /\ W /\ R /\ D
  <2>1. /\ UNCHANGED <<memo, zone, start, pc, ret, held>>
        /\ rolls < MaxRolls /\ rolls' = rolls + 1 /\ roll[y] < 3
        /\ roll' = [roll EXCEPT ![y] = @ + 1]
    BY <1>7 DEF RollKey
  <2>2. rolls = 0 /\ rolls' # 0
    BY <1>e, <2>1, SMT DEF Orderly
  <2>3. Undecided' = Undecided
    BY <1>0, <2>1, StackKept
  <2>4. ASSUME NEW z \in Undecided PROVE Waiting(z)'
    <3>1. pc \in {"call", "ds", "return"} /\ z \in Names
      BY <1>d DEF Undecided
    <3>2. z \in world.signed /\ held[z] = HonestKeys(z) /\ Vouchable(z, held[z])
      BY <1>e, <2>2 DEF Waiting
    <3>3. CASE z = y
      <4>1. roll'[z] = roll[z] + 1 /\ roll[z] \in 0..2
        BY <1>e, <2>1, <3>1, <3>3, SMT
      <4>2. Zsk(z) \in held[z].keys /\ Ksk(z, DsGeneration(z)') \in held[z].keys \cap held[z].sigs
        BY <3>2, <4>1, StillVouchable
      <4> QED  BY <1>w, <2>1, <2>2, <3>2, <4>2 DEF Waiting, Vouchable
    <3>4. CASE z # y
      <4>1. roll'[z] = roll[z]
        BY <1>e, <2>1, <3>1, <3>4
      <4>2. DsGeneration(z)' = DsGeneration(z)
        BY <4>1 DEF DsGeneration
      <4> QED  BY <1>w, <2>1, <2>2, <3>2, <4>2 DEF Waiting, Vouchable
    <3> QED  BY <3>3, <3>4
  <2> QED  BY <1>e, <1>m, <2>1, <2>3, <2>4
<1>8. CASE UNCHANGED vars
  <2>1. UNCHANGED <<memo, zone, start, pc, ret, held, roll, rolls>>
    BY <1>8 DEF vars
  <2>2. Undecided' = Undecided
    BY <1>0, <2>1, StackKept
  <2> QED  BY <1>e, <1>k, <1>m, <2>1, <2>2
<1> QED  BY <1>1, <1>2, <1>3, <1>4, <1>6, <1>7, <1>8 DEF Next, Validation, Done

(***************************************************************************)
(* verify_section, with genuine data and no bad reply so far: its first    *)
(* signature decides each rrset, and any_secure tells whether one of those *)
(* behind it has a chain of trust.                                         *)
(***************************************************************************)
AllGenuine == \A i \in DOMAIN section : Genuine(section[i])

SecureBefore(n) == \E i \in DOMAIN section : i < n /\ Walked(section[i].zone)

SoFar ==
    /\ idx[2] = 1
    /\ anySecure <=> SecureBefore(idx[1])
    /\ verdict # "Bogus"
    /\ verdict # "none" => idx[1] > Len(section) /\ (verdict = "Secure" <=> anySecure)

VerdictInv ==
    /\ ExactInv
    /\ verdict \in {"none", "Secure", "Insecure", "Bogus"}
    /\ verdict # "none" => pc = "done"
    /\ faults = 0 /\ AllGenuine => SoFar

(* One rrset further. *)
LEMMA OneFurther ==
    ASSUME section \in Sections, NEW n \in DOMAIN section
    PROVE  SecureBefore(n + 1) <=> SecureBefore(n) \/ Walked(section[n].zone)
<1>1. \A i \in DOMAIN section : i \in Nat
  BY SectionElement
<1>2. \A i \in DOMAIN section : i < n + 1 <=> i < n \/ i = n
  BY <1>1, SMT
<1> QED  BY <1>2 DEF SecureBefore

LEMMA VerdictStep ==
    ASSUME Orderly, VerdictInv, [Next]_vars
    PROVE  VerdictInv'
<1>0. /\ ExactInv /\ ExactInv' /\ Shape /\ SecureInv
  BY ExactStep DEF VerdictInv, ExactInv, SecureInv
<1>w. /\ UNCHANGED <<world, section>> /\ (faults' = 0 => faults = 0)
  BY <1>0, RollStep DEF ExactInv
<1>u. /\ AllGenuine' <=> AllGenuine
      /\ \A n : SecureBefore(n)' <=> SecureBefore(n)
  <2>1. AllGenuine' <=> AllGenuine
    BY <1>w, SMT DEF AllGenuine, Genuine, SigsOf
  <2>2. \A z : Walked(z)' <=> Walked(z)
    BY <1>w DEF Walked
  <2>3. \A n : SecureBefore(n)' <=> SecureBefore(n)
    BY <1>w, <2>2 DEF SecureBefore
  <2> QED  BY <2>1, <2>3
<1>s. section \in Seq({section[j] : j \in DOMAIN section}) /\ section \in Sections
  BY <1>0, SectionsAssumption DEF Shape
<1>i. idx[1] \in Nat \ {0} /\ idx[2] \in Nat \ {0}
  BY <1>0 DEF Shape
<1> DEFINE V == verdict' \in {"none", "Secure", "Insecure", "Bogus"} /\ (verdict' # "none" => pc' = "done")
           S == faults = 0 /\ AllGenuine =>
                   /\ idx'[2] = 1 /\ (anySecure' <=> SecureBefore(idx'[1])) /\ verdict' # "Bogus"
                   /\ verdict' # "none" => idx'[1] > Len(section) /\ (verdict' = "Secure" <=> anySecure')
<1>q. SUFFICES V /\ S
  BY <1>0, <1>w, <1>u DEF VerdictInv, SoFar
<1>v. /\ verdict \in {"none", "Secure", "Insecure", "Bogus"}
      /\ verdict # "none" => pc = "done"
      /\ faults = 0 /\ AllGenuine => SoFar
  BY DEF VerdictInv
<1>k. ASSUME UNCHANGED <<idx, anySecure, verdict>> PROVE S
  BY <1>k, <1>v DEF SoFar
<1>1. CASE NextSignature
  <2>0. pc = "section" /\ verdict = "none" /\ anySecure' = anySecure
    BY <1>1, <1>v DEF NextSignature, SectionDone
  <2>1. CASE idx[1] > Len(section)
    <3>1. /\ verdict' = (IF anySecure THEN "Secure" ELSE "Insecure")
          /\ pc' = "done" /\ idx' = idx
      BY <1>1, <2>1 DEF NextSignature, SectionDone
    <3> QED  BY <1>v, <2>0, <2>1, <3>1 DEF SoFar
  <2>2. CASE ~(idx[1] > Len(section))
    <3> DEFINE r == section[idx[1]]
    <3>1. idx[1] \in DOMAIN section
      BY <1>i, <1>s, <2>2, SMT
    <3>2. /\ r.zone \in Names /\ r.zone \in Seq(STRING)
          /\ r.sigs \in Seq(Signatures)
      BY <1>s, <3>1, SectionElement, NamesAssumption
    <3>3. CASE r.sigs = <<>>
      <4>1. idx' = <<idx[1] + 1, 1>> /\ verdict' = verdict /\ pc' = pc
        BY <1>1, <2>2, <3>3 DEF NextSignature
      <4>2. ASSUME AllGenuine PROVE ~Walked(r.zone)
        <5>1. r.zone \notin world.signed
          BY <3>1, <3>3, <4>2 DEF AllGenuine, Genuine
        <5> QED  BY <3>2, <5>1, SuffixSelf DEF Walked
      <4>3. AllGenuine => (SecureBefore(idx[1] + 1) <=> SecureBefore(idx[1]))
        BY <1>s, <3>1, <4>2, OneFurther
      <4> QED  BY <1>v, <2>0, <4>1, <4>3 DEF SoFar
    <3>4. CASE r.sigs # <<>> /\ idx[2] > Len(r.sigs)
      <4>1. SectionDone("Bogus")
        BY <1>1, <2>2, <3>4 DEF NextSignature
      <4>2. idx[2] # 1
        BY <3>2, <3>4, SMT
      <4> QED  BY <1>v, <4>1, <4>2 DEF SectionDone, SoFar
    <3>5. CASE r.sigs # <<>> /\ ~(idx[2] > Len(r.sigs))
      <4>1. UNCHANGED <<idx, anySecure, verdict>>
        BY <1>1, <2>2, <3>5 DEF NextSignature
      <4> QED  BY <1>k, <1>v, <2>0, <4>1
    <3> QED  BY <3>3, <3>4, <3>5
  <2> QED  BY <2>1, <2>2
<1>2. CASE ReturnToSection
  <2> DEFINE r == section[idx[1]]
             sig == r.sigs[idx[2]]
             good == \E k \in ret.keys : VerifyRrsig(sig.by, k)
  <2>1. /\ pc = "return" /\ zone = start /\ verdict' = verdict /\ anySecure' = (anySecure \/ good)
        /\ idx' = IF ret.insecure \/ good THEN <<idx[1] + 1, 1>> ELSE <<idx[1], idx[2] + 1>>
    BY <1>2 DEF ReturnToSection
  <2>2. verdict = "none"
    BY <1>v, <2>1
  <2>3. idx[1] \in DOMAIN section /\ idx[2] \in DOMAIN r.sigs /\ zone = sig.signer
    BY <1>0, <2>1 DEF Shape, AtSignature
  <2>4. ASSUME faults = 0, AllGenuine
        PROVE  (good <=> Walked(zone)) /\ (ret.insecure \/ good) /\ zone = r.zone
    <3>1. sig.by = Zsk(zone) /\ zone = r.zone
      <4>1. sig \in SigsOf(r)
        BY <1>s, <2>3, SectionSignature
      <4>2. sig = Good(r.zone)
        BY <2>3, <2>4, <4>1 DEF AllGenuine, Genuine
      <4> QED  BY <2>3, <4>2, SMT DEF Good, Signature
    <3>2. Exact(zone, ret) /\ GoodKeys(zone, ret)
      BY <1>0, <2>1, <2>4 DEF ExactInv, SecureInv
    <3>3. good <=> Zsk(zone) \in ret.keys
      BY <3>1 DEF VerifyRrsig
    <3> QED  BY <3>1, <3>2, <3>3 DEF Exact, GoodKeys
  <2>5. SecureBefore(idx[1] + 1) <=> SecureBefore(idx[1]) \/ Walked(r.zone)
    BY <1>s, <2>3, OneFurther
  <2> HIDE DEF good
  <2>6. S
    BY <1>v, <2>1, <2>2, <2>4, <2>5 DEF SoFar
  <2> QED  BY <2>1, <2>2, <2>6
<1>3. CASE ~NextSignature /\ ~ReturnToSection
  <2>1. UNCHANGED <<idx, anySecure, verdict>> /\ (pc = "done" => pc' = "done")
    BY <1>3 DEF Next, Validation, Done, vars, Dnskeys, FetchDnskey, ReturnToChild, FetchDs, RollKey
  <2> QED  BY <1>k, <1>v, <2>1
<1> QED  BY <1>1, <1>2, <1>3

(***************************************************************************)
(* With every fetch answered and genuine data, a section is never Bogus,   *)
(* and if every label on the way to its zones is a cut, it is Secure       *)
(* exactly if one of them has a chain of trust: for names of any depth     *)
(* within the limit, any delegations and forms of denial, any number of    *)
(* rrsets and signatures, and one step of a key rollover at any moment.    *)
(***************************************************************************)
THEOREM AlwaysHonest ==
    ASSUME Orderly
    PROVE  Spec => []HonestVerdict
<1>1. Init => VerdictInv
  <2> SUFFICES ASSUME Init PROVE VerdictInv
    OBVIOUS
  <2>1. SecureInv /\ Shape
    BY InitSecure DEF SecureInv
  <2>2. /\ DOMAIN memo = {} /\ pc = "section" /\ verdict = "none"
        /\ idx = <<1, 1>> /\ anySecure = FALSE /\ faults = 0 /\ rolls = 0 /\ Undecided = {}
    BY SMT DEF Init, Undecided
  <2>3. roll \in [Names -> 0..3] /\ (Root \in Names => roll[Root] = 0)
    <3>1. PICK r \in Rolling, n \in 0..3 :
             roll = [z \in Names |-> IF z = r /\ Rollable(z) THEN n ELSE 0]
      BY DEF Init
    <3>2. 0 \in 0..3 /\ r # Root
      BY SMT DEF Orderly
    <3> QED  BY <3>1, <3>2
  <2>4. ExactInv
    BY <2>1, <2>2, <2>3 DEF ExactInv
  <2>5. ~SecureBefore(1)
    <3>1. section \in Sections
      BY <2>1 DEF Shape
    <3>2. \A i \in DOMAIN section : i \in Nat \ {0}
      BY <3>1, SectionElement
    <3>3. \A i \in DOMAIN section : ~(i < 1)
      BY <3>2, SMT
    <3> QED  BY <3>3 DEF SecureBefore
  <2> QED  BY <2>2, <2>4, <2>5 DEF VerdictInv, SoFar
<1>2. VerdictInv /\ [Next]_vars => VerdictInv'
  BY VerdictStep
<1>3. VerdictInv => HonestVerdict
  <2> SUFFICES ASSUME VerdictInv, verdict # "none", faults = 0, AllGenuine
               PROVE  /\ verdict # "Bogus"
                      /\ (\A i \in DOMAIN section : Gapless(section[i].zone)) =>
                            (verdict = "Secure" <=> \E i \in DOMAIN section : Followed(section[i].zone))
    BY DEF HonestVerdict, AllGenuine
  <2>1. /\ verdict \in {"Secure", "Insecure"} /\ (verdict = "Secure" <=> SecureBefore(idx[1]))
        /\ idx[1] > Len(section)
    BY DEF VerdictInv, SoFar
  <2>2. section \in Sections /\ idx[1] \in Nat
    BY DEF VerdictInv, ExactInv, SecureInv, Shape
  <2>3. \A i \in DOMAIN section : i < idx[1]
    <3>1. section \in Seq({section[j] : j \in DOMAIN section})
      BY <2>2, SectionsAssumption
    <3> QED  BY <2>1, <2>2, <3>1, SectionElement, SMT
  <2>4. ASSUME NEW i \in DOMAIN section, Gapless(section[i].zone)
        PROVE  Walked(section[i].zone) <=> Followed(section[i].zone)
    <3> DEFINE z == section[i].zone
    <3>1. z \in Seq(STRING) /\ world \in Worlds /\ section[i].sigs \in Seq(Signatures)
      BY <2>2, SectionElement, NamesAssumption DEF VerdictInv, ExactInv, SecureInv, Shape
    <3>2. Walked(z) <=> Chained(z)
      BY <2>4, <3>1, WalkedIsChained
    <3>3. ASSUME Walked(z) PROVE Len(z) <= MaxDepth
      <4>1. z \in world.signed
        BY <3>1, <3>3, SuffixSelf DEF Walked
      <4>2. section[i].sigs # <<>>
        BY <4>1 DEF AllGenuine, Genuine
      <4>3. 1 \in DOMAIN section[i].sigs
        BY <3>1, <4>2, SMT
      <4>4. section[i].sigs[1] \in SigsOf(section[i])
        BY <4>3 DEF SigsOf
      <4>5. section[i].sigs[1].signer = z
        <5>1. section[i].sigs[1] = Good(z)
          BY <4>4 DEF AllGenuine, Genuine
        <5> QED  BY <5>1, SMT DEF Good, Signature
      <4> QED  BY <2>2, <4>4, <4>5 DEF Orderly, Shallow
    <3> QED  BY <2>4, <3>2, <3>3 DEF Followed
  <2> QED  BY <2>1, <2>3, <2>4 DEF SecureBefore
<1> QED  BY <1>1, <1>2, <1>3, PTL DEF Spec
=============================================================================
